---- MODULE Spec2Model ----
(***************************************************************************)
(* A model of pip-review (src/pip_review/__main__.py).                     *)
(*                                                                         *)
(* Python strings are modelled as sequences of one-character strings, so   *)
(* that startswith, lstrip, strip, lower, format and the regular           *)
(* expressions are computed character by character.  Python lists are      *)
(* sequences, dicts are records.                                           *)
(***************************************************************************)
EXTENDS Integers, Sequences, FiniteSets, TLC

(***************************************************************************)
(* Bounds of the model.                                                    *)
(***************************************************************************)
MaxArgs == 3
MaxCalls == 3
MaxPrompts == 4
MaxPkgs == 2
MaxLines == 2

(***************************************************************************)
(* Generic helpers on sequences.                                           *)
(***************************************************************************)
Range(s) == { s[i] : i \in 1..Len(s) }

SeqsUpTo(S, n) == UNION { [1..k -> S] : k \in 0..n }

\* number of positions of s holding x
Count(s, x) == Cardinality({ i \in 1..Len(s) : s[i] = x })

\* Python's None
None == <<"None">>

(***************************************************************************)
(* Classification sets, lines 50-54.                                       *)
(***************************************************************************)
LIST_ONLY ==
    { <<"l">>,
      <<"l","o","c","a","l">>,
      <<"p","a","t","h">>,
      <<"f","o","r","m","a","t">>,
      <<"n","o","t","-","r","e","q","u","i","r","e","d">>,
      <<"e","x","c","l","u","d","e","-","e","d","i","t","a","b","l","e">>,
      <<"i","n","c","l","u","d","e","-","e","d","i","t","a","b","l","e">> }

INSTALL_ONLY ==
    { <<"c">>,
      <<"c","o","n","s","t","r","a","i","n","t">>,
      <<"n","o","-","d","e","p","s">>,
      <<"t">>,
      <<"t","a","r","g","e","t">>,
      <<"p","l","a","t","f","o","r","m">>,
      <<"p","y","t","h","o","n","-","v","e","r","s","i","o","n">>,
      <<"i","m","p","l","e","m","e","n","t","a","t","i","o","n">>,
      <<"a","b","i">>,
      <<"r","o","o","t">>,
      <<"p","r","e","f","i","x">>,
      <<"b">>,
      <<"b","u","i","l","d">>,
      <<"s","r","c">>,
      <<"U">>,
      <<"u","p","g","r","a","d","e">>,
      <<"u","p","g","r","a","d","e","-","s","t","r","a","t","e","g","y">>,
      <<"f","o","r","c","e","-","r","e","i","n","s","t","a","l","l">>,
      <<"I">>,
      <<"i","g","n","o","r","e","-","i","n","s","t","a","l","l","e","d">>,
      <<"i","g","n","o","r","e","-","r","e","q","u","i","r","e","s","-","p","y","t","h","o","n">>,
      <<"n","o","-","b","u","i","l","d","-","i","s","o","l","a","t","i","o","n">>,
      <<"u","s","e","-","p","e","p","5","1","7">>,
      <<"i","n","s","t","a","l","l","-","o","p","t","i","o","n">>,
      <<"g","l","o","b","a","l","-","o","p","t","i","o","n">>,
      <<"c","o","m","p","i","l","e">>,
      <<"n","o","-","c","o","m","p","i","l","e">>,
      <<"n","o","-","w","a","r","n","-","s","c","r","i","p","t","-","l","o","c","a","t","i","o","n">>,
      <<"n","o","-","w","a","r","n","-","c","o","n","f","l","i","c","t","s">>,
      <<"n","o","-","b","i","n","a","r","y">>,
      <<"o","n","l","y","-","b","i","n","a","r","y">>,
      <<"p","r","e","f","e","r","-","b","i","n","a","r","y">>,
      <<"n","o","-","c","l","e","a","n">>,
      <<"r","e","q","u","i","r","e","-","h","a","s","h","e","s">>,
      <<"p","r","o","g","r","e","s","s","-","b","a","r">> }

(***************************************************************************)
(* State.                                                                  *)
(***************************************************************************)
VARIABLES
    \* argument forwarding (filter_forwards, main lines 252-254)
    forwarded,      \* the unrecognised command-line tokens
    exclude,        \* the exclusion set of a call of filter_forwards
    result,         \* the list that call returned
    refiltered,     \* what filter_forwards returned when given result
    ff_pc,          \* "call" before filter_forwards has run, "done" after it,
                    \* "again" after it has run on its own result
    list_args,      \* main: filter_forwards(forwarded, INSTALL_ONLY)
    install_args,   \* main: filter_forwards(forwarded, LIST_ONLY)
    fw_pc,          \* "call" before main has split the tokens, "list" at
                    \* line 254, "done" after
    \* InteractiveAsker, lines 153-174
    cached_answer,  \* self.cached_answer
    last_answer,    \* self.last_answer
    answer,         \* the local variable answer of ask
    raw,            \* what input() returned last in the current call of ask
    question,       \* the prompt the last input() showed
    ask_ret,        \* the value the last completed call of ask returned
    ask_pc,         \* "ready", "loop" (at line 163), "read" (at line 167),
                    \* "stripped" (at line 168), "cached" (at line 172),
                    \* "returned", "raised" (input() raised EOFError)
    calls,          \* number of calls of ask so far
    prompts,        \* number of calls of input() so far
    \* confirm, lines 199-204
    conf_question,  \* the parameter question
    conf_answer,    \* the local variable answer of confirm
    conf_ret,       \* what confirm returned
    conf_pc,        \* "call", "loop", "returned", "raised"
    \* update_packages, lines 180-196
    packages,       \* the parameter packages
    up_forwarded,   \* the parameter forwarded
    continue_on_fail,           \* the parameter continue_on_fail
    freeze_outdated_packages,   \* the parameter freeze_outdated_packages
    upgrade_cmd,    \* the local list upgrade_cmd
    requirements,   \* the content of the file requirements.txt, None if absent
    f_buf,          \* what was written to the open file f, None if not open
    invocations,    \* the subprocess.call invocations so far, with exit codes
    up_pc,          \* the position in update_packages: "start", "open",
                    \* "write", "install" (line 188), "call_all" (line 190),
                    \* "loop" (line 193), "call_one" (line 195), "pop" (line
                    \* 196), "done", "interrupted"
    up_i,           \* the index of the package a for loop is at
    \* apply_whitelist_or_blacklist, lines 239-248
    outdated,       \* the list given as packages
    pattern,        \* the parameter pattern
    filtered,       \* is_whitelist |-> the list the call returned
    flt_done,       \* the values of is_whitelist the call has returned for
    flt_raised,     \* the values of is_whitelist the call has raised for
    \* parse_legacy, lines 207-220
    legacy_lines,   \* the lines pip printed, with what the patterns match
    pip_output,     \* the parameter pip_output
    legacy_packages,    \* the list parse_legacy returned
    leg_pc,         \* "call" before parse_legacy has run, "done" after
    packaging,      \* the release of packaging that is installed
    \* main, lines 251-289
    cli_args,           \* the parsed options
    pip_version,    \* pip.__version__, as << major, minor >>
    pc,             \* the position in main
    outcome,        \* "running", then how the run ended
    exit_status,    \* the exit status of the process, -1 while running
    interrupted,    \* a KeyboardInterrupt was raised
    interrupted_cmd,    \* the command of the pip process that was running
                        \* when it was raised, << >> if none was
    list_invocations,   \* the pip list invocations so far, with exit codes
    selected,       \* the local list selected
    idx,            \* the index of the package the loop of line 272 is at
    answers         \* what ask_to_install returned, package by package

ffVars == <<forwarded, exclude, result, refiltered, ff_pc, list_args, install_args, fw_pc>>

askVars == <<cached_answer, last_answer, answer, raw, question, ask_ret,
             ask_pc, calls, prompts>>

confVars == <<conf_question, conf_answer, conf_ret, conf_pc>>

upVars == <<packages, up_forwarded, continue_on_fail, freeze_outdated_packages,
            upgrade_cmd, requirements, f_buf, invocations, up_pc, up_i>>

fltVars == <<outdated, pattern, filtered, flt_done, flt_raised>>

legVars == <<legacy_lines, pip_output, legacy_packages, leg_pc, packaging>>

mainVars == <<cli_args, pip_version, pc, outcome, exit_status, interrupted,
              interrupted_cmd,
              list_invocations, selected, idx, answers>>

vars == <<ffVars, askVars, confVars, upVars, fltVars, legVars, mainVars>>

\* what an operation of one component leaves alone
notFF == <<confVars, askVars, upVars, fltVars, legVars, mainVars>>
notAsk == <<confVars, ffVars, upVars, fltVars, legVars, mainVars>>
notUp == <<confVars, ffVars, askVars, fltVars, legVars, mainVars>>
notFlt == <<confVars, ffVars, askVars, upVars, legVars, mainVars>>
notLeg == <<confVars, ffVars, askVars, upVars, fltVars, mainVars>>
notConf == <<ffVars, askVars, upVars, fltVars, legVars, mainVars>>

(***************************************************************************)
(* filter_forwards, lines 100-116.                                         *)
(***************************************************************************)
\* arg.startswith('-')
startswith_dash(arg) == Len(arg) > 0 /\ arg[1] = "-"

\* arg.lstrip('-')
RECURSIVE lstrip_dash(_)
lstrip_dash(arg) ==
    IF Len(arg) > 0 /\ arg[1] = "-" THEN lstrip_dash(Tail(arg)) ELSE arg

\* the for loop of lines 106-115, on the tokens that remain
RECURSIVE ff_loop(_, _, _, _)
ff_loop(args, excl, res, admitted) ==
    IF args = <<>> THEN res
    ELSE LET arg == Head(args) IN
         IF ~startswith_dash(arg)
         THEN IF admitted
              THEN ff_loop(Tail(args), excl, Append(res, arg), admitted)
              ELSE ff_loop(Tail(args), excl, res, admitted)
         ELSE IF lstrip_dash(arg) \in excl
         THEN ff_loop(Tail(args), excl, res, FALSE)
         ELSE ff_loop(Tail(args), excl, Append(res, arg), TRUE)

\* a loop that puts what it forwards in front of the result
RECURSIVE ff_loop_prepending(_, _, _, _)
ff_loop_prepending(args, excl, res, admitted) ==
    IF args = <<>> THEN res
    ELSE LET arg == Head(args) IN
         IF ~startswith_dash(arg)
         THEN IF admitted
              THEN ff_loop_prepending(Tail(args), excl, <<arg>> \o res, admitted)
              ELSE ff_loop_prepending(Tail(args), excl, res, admitted)
         ELSE IF lstrip_dash(arg) \in excl
         THEN ff_loop_prepending(Tail(args), excl, res, FALSE)
         ELSE ff_loop_prepending(Tail(args), excl, <<arg>> \o res, TRUE)

filter_forwards_prepending(args, excl) == ff_loop_prepending(args, excl, <<>>, FALSE)

\* a filter_forwards that starts out admitting values
filter_forwards_admitting(args, excl) == ff_loop(args, excl, <<>>, TRUE)

\* a filter_forwards that forwards every flag
filter_forwards_all_flags(args, excl) == ff_loop(args, {}, <<>>, FALSE)

filter_forwards(args, excl) == ff_loop(args, excl, <<>>, FALSE)

(***************************************************************************)
(* The tokens and exclusion sets the forwarding is explored on.            *)
(***************************************************************************)
Tokens ==
    { <<"-","U">>,                              \* -U         install only
      <<"-","-","u","p","g","r","a","d","e">>,  \* --upgrade  install only
      <<"-","l">>,                              \* -l         list only
      <<"-","-","l","o","c","a","l">>,          \* --local    list only
      <<"-","-","u","s","e","r">>,              \* --user     shared
      <<"5">>,                                  \* a value
      <<"-","-">>,                              \* --, bare name ''
      <<>> }                                    \* the empty token

ExcludeSets ==
    { LIST_ONLY, INSTALL_ONLY, {}, { <<>>, <<"u","s","e","r">> },
      LIST_ONLY \cup INSTALL_ONLY }

FFIdle ==
    /\ forwarded = <<>>
    /\ exclude = {}
    /\ result = <<>>
    /\ refiltered = <<>>
    /\ ff_pc = "idle"
    /\ list_args = <<>>
    /\ install_args = <<>>
    /\ fw_pc = "idle"

FFInit ==
    /\ forwarded \in SeqsUpTo(Tokens, MaxArgs)
    /\ exclude \in ExcludeSets
    /\ result = <<>>
    /\ refiltered = <<>>
    /\ ff_pc = "call"
    /\ list_args = <<>>
    /\ install_args = <<>>
    /\ fw_pc = "call"

\* one call filter_forwards(forwarded, exclude)
FilterForwards ==
    /\ ff_pc = "call"
    /\ result' = filter_forwards(forwarded, exclude)
    /\ ff_pc' = "done"
    /\ UNCHANGED <<forwarded, exclude, refiltered, list_args, install_args, fw_pc>>
    /\ UNCHANGED notFF

\* one more call, filter_forwards(result, exclude)
FilterAgain ==
    /\ ff_pc = "done"
    /\ refiltered' = filter_forwards(result, exclude)
    /\ ff_pc' = "again"
    /\ UNCHANGED <<forwarded, exclude, result, list_args, install_args, fw_pc>>
    /\ UNCHANGED notFF

\* main, line 253
ForwardList ==
    /\ fw_pc = "call"
    /\ list_args' = filter_forwards(forwarded, INSTALL_ONLY)
    /\ fw_pc' = "list"
    /\ UNCHANGED <<forwarded, exclude, result, refiltered, ff_pc, install_args>>
    /\ UNCHANGED notFF

\* main, line 254
ForwardInstall ==
    /\ fw_pc = "list"
    /\ install_args' = filter_forwards(forwarded, LIST_ONLY)
    /\ fw_pc' = "done"
    /\ UNCHANGED <<forwarded, exclude, result, refiltered, ff_pc, list_args>>
    /\ UNCHANGED notFF

(***************************************************************************)
(* Properties of the argument forwarding.                                  *)
(***************************************************************************)
IsFlag(t) == startswith_dash(t)

\* the position of the nearest flag token before position i, 0 if none
NearestFlag(args, i) ==
    LET F == { j \in 1..(i-1) : IsFlag(args[j]) }
    IN  IF F = {} THEN 0 ELSE CHOOSE j \in F : \A k \in F : k <= j

\* the positions of args whose token is forwarded: the flags that are not
\* excluded, and the values whose nearest preceding flag is not excluded
KeptPositions(args, excl) ==
    { i \in 1..Len(args) :
        IF IsFlag(args[i])
        THEN lstrip_dash(args[i]) \notin excl
        ELSE LET j == NearestFlag(args, i)
             IN  j > 0 /\ lstrip_dash(args[j]) \notin excl }

\* the subsequence of args at the positions K
Pick(args, K) ==
    [ k \in 1..Cardinality(K) |->
        args[CHOOSE i \in K : Cardinality({ j \in K : j <= i }) = k] ]

NoExcludedFlag ==
    \A i \in 1..Len(result) :
        IsFlag(result[i]) => lstrip_dash(result[i]) \notin exclude

\* C1, as stated: filter_forwards never emits a flag whose bare name is
\* excluded, and never emits a bare value unless the token emitted
\* immediately before it was a flag.
C1_AsStated ==
    ff_pc = "done" =>
        /\ NoExcludedFlag
        /\ \A i \in 1..Len(result) :
               ~IsFlag(result[i]) => (i > 1 /\ IsFlag(result[i-1]))

\* C1, amended: filter_forwards never emits a flag whose bare name is
\* excluded, and emits a bare value exactly when the nearest flag before it
\* in the input was emitted; so every emitted value has an emitted flag
\* somewhere before it, but not necessarily immediately before it.
C1_ValueFollowsAdmittedFlag ==
    ff_pc = "done" =>
        /\ NoExcludedFlag
        /\ result = Pick(forwarded, KeptPositions(forwarded, exclude))
        /\ \A i \in 1..Len(result) :
               ~IsFlag(result[i]) => \E j \in 1..(i-1) : IsFlag(result[j])

\* an excluded flag was met and a value was forwarded
C1_Witness ==
    /\ ff_pc = "done"
    /\ \E i \in 1..Len(forwarded) :
           IsFlag(forwarded[i]) /\ lstrip_dash(forwarded[i]) \in exclude
    /\ \E i \in 1..Len(result) : ~IsFlag(result[i])
    /\ Len(result) < Len(forwarded)

\* C2: LIST_ONLY and INSTALL_ONLY are disjoint; a flag in neither set is
\* forwarded to both the listing and the install, a list-only flag to the
\* listing alone, an install-only flag to the install alone, each as often
\* as it occurs in the input.
C2_SharedInBothExclusiveInOne ==
    fw_pc = "done" =>
        /\ LIST_ONLY \cap INSTALL_ONLY = {}
        /\ \A t \in Range(forwarded) :
               IsFlag(t) =>
                   LET b == lstrip_dash(t)
                       n == Count(forwarded, t)
                   IN  /\ b \notin LIST_ONLY \cup INSTALL_ONLY =>
                              Count(list_args, t) = n /\ Count(install_args, t) = n
                       /\ b \in LIST_ONLY =>
                              Count(list_args, t) = n /\ Count(install_args, t) = 0
                       /\ b \in INSTALL_ONLY =>
                              Count(list_args, t) = 0 /\ Count(install_args, t) = n

\* the input holds a list-only, an install-only and a shared flag
C2_Witness ==
    /\ fw_pc = "done"
    /\ \E i, j, k \in 1..Len(forwarded) :
           /\ IsFlag(forwarded[i]) /\ lstrip_dash(forwarded[i]) \in LIST_ONLY
           /\ IsFlag(forwarded[j]) /\ lstrip_dash(forwarded[j]) \in INSTALL_ONLY
           /\ IsFlag(forwarded[k])
           /\ lstrip_dash(forwarded[k]) \notin LIST_ONLY \cup INSTALL_ONLY
    /\ list_args # install_args

\* s is t with some of its elements left out, the others in order
IsSubsequence(s, t) ==
    \E K \in SUBSET (1..Len(t)) : s = Pick(t, K)

\* C20: filter_forwards returns a subsequence of its input, leaves the
\* input as it was, and returns its own result unchanged when applied to
\* it with the same exclusion set.
C20_OrderPreservingIdempotent ==
    /\ [](ff_pc \in { "done", "again" } => IsSubsequence(result, forwarded))
    /\ [](ff_pc = "again" => refiltered = result)
    /\ [][ forwarded' = forwarded /\ (ff_pc = "done" => result' = result) ]_vars

\* tokens were dropped, tokens were kept, and the second pass kept them all
C20_Witness ==
    /\ ff_pc = "again"
    /\ Len(result) >= 2
    /\ Len(result) < Len(forwarded)
    /\ \E i \in 1..Len(result) : ~IsFlag(result[i])
    /\ refiltered = result

(***************************************************************************)
(* str.strip() and str.lower(), line 167.                                  *)
(***************************************************************************)
\* the characters up to U+00FF for which str.isspace() holds: space, \t,
\* \n, \r, \f, U+000B, U+001C..U+001F, U+0085 and U+00A0; the strings the
\* model strips hold no character above U+00FF
Whitespace ==
    { " ", "\t", "\n", "\r", "\f",
      "", "", "", "", "", "", " " }

RECURSIVE lstrip(_)
lstrip(s) ==
    IF Len(s) > 0 /\ s[1] \in Whitespace THEN lstrip(Tail(s)) ELSE s

RECURSIVE rstrip(_)
rstrip(s) ==
    IF Len(s) > 0 /\ s[Len(s)] \in Whitespace
    THEN rstrip(SubSeq(s, 1, Len(s) - 1))
    ELSE s

strip(s) == rstrip(lstrip(s))

\* the cased characters up to U+00FF that str.lower() changes, and what it
\* changes them to; the strings the model lowers hold no character above
\* U+00FF
UpperCase == << "A","B","C","D","E","F","G","H","I","J","K","L","M",
                "N","O","P","Q","R","S","T","U","V","W","X","Y","Z",
                "À","Á","Â","Ã","Ä","Å","Æ","Ç","È","É","Ê","Ë","Ì","Í","Î",
                "Ï","Ð","Ñ","Ò","Ó","Ô","Õ","Ö","Ø","Ù","Ú","Û","Ü","Ý","Þ" >>
LowerCase == << "a","b","c","d","e","f","g","h","i","j","k","l","m",
                "n","o","p","q","r","s","t","u","v","w","x","y","z",
                "à","á","â","ã","ä","å","æ","ç","è","é","ê","ë","ì","í","î",
                "ï","ð","ñ","ò","ó","ô","õ","ö","ø","ù","ú","û","ü","ý","þ" >>

lower_char(c) ==
    IF \E i \in 1..Len(UpperCase) : UpperCase[i] = c
    THEN LowerCase[CHOOSE i \in 1..Len(UpperCase) : UpperCase[i] = c]
    ELSE c

lower(s) == [ i \in 1..Len(s) |-> lower_char(s[i]) ]

(***************************************************************************)
(* InteractiveAsker, lines 153-174.                                        *)
(***************************************************************************)
\* the answers that end the while loop, line 163
Answers == { <<"y">>, <<"n">>, <<"a">>, <<"q">> }

\* the answers that are cached, line 170
CachedAnswers == { <<"q">>, <<"a">> }

\* a loop that only rejects the empty answer
loop_continues_on_empty(a) == a = <<>>

\* the condition of the while loop, line 163
loop_continues(a) == a \notin Answers

\* line 167: answer.strip().lower()
strip_lower(r) == lower(strip(r))

\* a default that is never taken
with_default_never(a, last) == a

\* line 168: the last answer stands for the empty one
with_default(a, last) == IF a = <<>> THEN last ELSE a

\* lines 167-168: the answer made of the raw input r
normalise(r, last) == with_default(strip_lower(r), last)

\* what input() may return
RawInputs ==
    { <<>>, <<" ">>, <<"y">>, <<"Y">>, <<" ","n"," ">>, <<"N">>,
      <<"a">>, <<"A"," ">>, <<"q">>, <<" ","Q">>,
      <<"x">>, <<"y","e","s">>, <<"y"," ","n">>,
      \* U+000B alone, U+00A0 before "y", U+00C9
      <<"">>, <<" ","y">>, <<"É">> }

\* __init__, lines 154-156; the asker is created once, line 177
AskInit ==
    /\ cached_answer = None
    /\ last_answer = None
    /\ answer = None
    /\ raw = None
    /\ question = None
    /\ ask_ret = None
    /\ ask_pc = "ready"
    /\ calls = 0
    /\ prompts = 0

AskIdle == AskInit

\* lines 159-160: a call answered from the cache
AskCached ==
    /\ ask_pc \in { "ready", "returned", "raised" }
    /\ calls < MaxCalls
    /\ cached_answer # None
    /\ ask_ret' = cached_answer
    /\ ask_pc' = "returned"
    /\ calls' = calls + 1
    /\ UNCHANGED <<cached_answer, last_answer, answer, raw, question, prompts>>
    /\ UNCHANGED notAsk

\* lines 159-162: a call that has to ask
AskEnter ==
    /\ ask_pc \in { "ready", "returned", "raised" }
    /\ calls < MaxCalls
    /\ cached_answer = None
    /\ answer' = <<>>
    /\ raw' = None
    /\ ask_pc' = "loop"
    /\ calls' = calls + 1
    /\ UNCHANGED <<cached_answer, last_answer, question, ask_ret, prompts>>
    /\ UNCHANGED notAsk

\* a caching of 'a' alone
AskCacheAllOnly ==
    /\ ask_pc = "loop"
    /\ ~loop_continues(answer)
    /\ answer \in CachedAnswers
    /\ cached_answer' = IF answer = <<"a">> THEN answer ELSE cached_answer
    /\ ask_pc' = "cached"
    /\ UNCHANGED <<last_answer, answer, raw, question, ask_ret, calls, prompts>>
    /\ UNCHANGED notAsk

\* lines 163, 170-171: the loop ends with 'q' or 'a', which is cached
AskCache ==
    /\ ask_pc = "loop"
    /\ ~loop_continues(answer)
    /\ answer \in CachedAnswers
    /\ cached_answer' = answer
    /\ ask_pc' = "cached"
    /\ UNCHANGED <<last_answer, answer, raw, question, ask_ret, calls, prompts>>
    /\ UNCHANGED notAsk

\* ask is at line 172: the loop has ended with an answer that is not
\* cached, or the answer has been cached
AtLastAnswer ==
    \/ ask_pc = "loop" /\ ~loop_continues(answer) /\ answer \notin CachedAnswers
    \/ ask_pc = "cached"

\* a return that caches every answer
AskReturnCachesEverything ==
    /\ AtLastAnswer
    /\ cached_answer' = answer
    /\ last_answer' = answer
    /\ ask_ret' = answer
    /\ ask_pc' = "returned"
    /\ UNCHANGED <<answer, raw, question, calls, prompts>>
    /\ UNCHANGED notAsk

\* a return that leaves last_answer alone when the answer is cached
AskReturnCachedSkipsLast ==
    /\ AtLastAnswer
    /\ last_answer' = IF answer \in CachedAnswers THEN last_answer ELSE answer
    /\ ask_ret' = answer
    /\ ask_pc' = "returned"
    /\ UNCHANGED <<cached_answer, answer, raw, question, calls, prompts>>
    /\ UNCHANGED notAsk

\* the prompt of lines 164-166: the last answer is shown if there is one
prompt_of(last) ==
    IF last # None /\ last # <<>> THEN [default |-> last]
    ELSE [default |-> None]

\* lines 163-166: the while loop goes on, input() shows the prompt and
\* returns r, which is assigned to answer as it is
AskRead(r) ==
    /\ ask_pc = "loop"
    /\ loop_continues(answer)
    /\ prompts < MaxPrompts
    /\ question' = prompt_of(last_answer)
    /\ raw' = r
    /\ answer' = r
    /\ prompts' = prompts + 1
    /\ ask_pc' = "read"
    /\ UNCHANGED <<cached_answer, last_answer, ask_ret, calls>>
    /\ UNCHANGED notAsk

\* line 167
AskStrip ==
    /\ ask_pc = "read"
    /\ answer' = strip_lower(answer)
    /\ ask_pc' = "stripped"
    /\ UNCHANGED <<cached_answer, last_answer, raw, question, ask_ret, calls,
                   prompts>>
    /\ UNCHANGED notAsk

\* line 168
AskDefault ==
    /\ ask_pc = "stripped"
    /\ answer' = with_default(answer, last_answer)
    /\ ask_pc' = "loop"
    /\ UNCHANGED <<cached_answer, last_answer, raw, question, ask_ret, calls,
                   prompts>>
    /\ UNCHANGED notAsk

\* lines 163-166: input() finds the end of the input and raises EOFError,
\* which leaves ask
AskEOF ==
    /\ ask_pc = "loop"
    /\ loop_continues(answer)
    /\ prompts < MaxPrompts
    /\ question' = prompt_of(last_answer)
    /\ prompts' = prompts + 1
    /\ ask_pc' = "raised"
    /\ UNCHANGED <<cached_answer, last_answer, answer, raw, ask_ret, calls>>
    /\ UNCHANGED notAsk

\* lines 172-174: last_answer is set and ask returns
AskReturn ==
    /\ AtLastAnswer
    /\ last_answer' = answer
    /\ ask_ret' = answer
    /\ ask_pc' = "returned"
    /\ UNCHANGED <<cached_answer, answer, raw, question, calls, prompts>>
    /\ UNCHANGED notAsk

AskNext ==
    \/ AskCached
    \/ AskEnter
    \/ \E r \in RawInputs : AskRead(r)
    \/ AskStrip
    \/ AskDefault
    \/ AskEOF
    \/ AskCache
    \/ AskReturn

(***************************************************************************)
(* Properties of the InteractiveAsker.                                     *)
(***************************************************************************)
\* the four decisions
YNAQ == { <<"y">>, <<"n">>, <<"a">>, <<"q">> }

\* C3: cached_answer is set at most once, by the first call of ask whose
\* answer is 'a' or 'q', to that answer, and the call returns it; once set
\* it never changes, and every later call returns it without reading input.
C3_CachedAnswerIsSticky ==
    [][ /\ cached_answer # None =>
               /\ cached_answer' = cached_answer
               /\ prompts' = prompts
               /\ calls' # calls =>
                      (ask_pc' = "returned" /\ ask_ret' = cached_answer)
        /\ (cached_answer = None /\ cached_answer' # None) =>
               /\ cached_answer' \in { <<"a">>, <<"q">> }
               /\ cached_answer' = answer
               /\ ask_pc' = "cached"
        /\ ask_pc = "cached" =>
               (ask_pc' = "returned" /\ ask_ret' = cached_answer)
        /\ (ask_pc' = "returned" /\ ask_ret' \in { <<"a">>, <<"q">> }) =>
               cached_answer' = ask_ret'
      ]_vars

\* one prompt answered 'a' or 'q', then calls answered from the cache
C3_Witness ==
    /\ cached_answer # None
    /\ ask_pc = "returned"
    /\ ask_ret = cached_answer
    /\ prompts = 1
    /\ calls >= 2

\* C4: every value ask returns is one of 'y', 'n', 'a', 'q', never None
\* or another string, whatever was typed before.
C4_ReturnsAnAnswer ==
    ask_pc = "returned" => ask_ret \in YNAQ

\* ask returned after an input that is not literally an answer, in a call
\* that rejected an input before
C4_Witness ==
    /\ ask_pc = "returned"
    /\ raw # None
    /\ raw \notin YNAQ
    /\ prompts > calls

\* the raw input r is empty or whitespace only
IsBlank(r) == \A i \in 1..Len(r) : r[i] \in Whitespace

\* the two spellings of an answer
Spellings(c) ==
    CASE c = <<"y">> -> { "y", "Y" }
      [] c = <<"n">> -> { "n", "N" }
      [] c = <<"a">> -> { "a", "A" }
      [] c = <<"q">> -> { "q", "Q" }

\* the raw input r is the answer c, in either case, padded with whitespace
Means(r, c) ==
    \E i \in 1..Len(r) :
        /\ r[i] \in Spellings(c)
        /\ \A j \in 1..Len(r) : j # i => r[j] \in Whitespace

\* the state right after an input was read and lines 167-168 have run
JustRead == ask_pc = "loop" /\ raw # None

\* C5: without a cached answer, a blank input stands for the last answer
\* when there is one and is rejected when there is none; an input that is
\* none of y, n, a, q once trimmed and lower-cased is rejected; a rejected
\* input is followed by another prompt, not by a return.
C5_BlankRepeatsElseReprompt ==
    /\ [](JustRead =>
            /\ cached_answer = None
            /\ (IsBlank(raw) /\ last_answer # None) =>
                   (answer = last_answer /\ answer \in YNAQ)
            /\ (IsBlank(raw) /\ last_answer = None) => answer \notin YNAQ
            /\ \A c \in YNAQ :
                   Means(raw, c) => (answer = c /\ answer \in YNAQ)
            /\ (~IsBlank(raw)
                  /\ \A c \in YNAQ : ~Means(raw, c))
                   => answer \notin YNAQ)
    /\ [][ JustRead =>
             IF answer \notin YNAQ
             THEN /\ ask_pc' \in { "read", "raised" }
                  /\ prompts' = prompts + 1
                  /\ ask_ret' = ask_ret
             ELSE /\ prompts' = prompts
                  /\ answer' = answer
                  /\ \/ ask_pc' = "returned" /\ ask_ret' = answer
                     \/ ask_pc' = "cached"
         ]_vars
    /\ [][ ask_pc = "cached" =>
             (ask_pc' = "returned" /\ ask_ret' = answer /\ prompts' = prompts)
         ]_vars

\* in the second call a blank input repeated the last answer, after an
\* input had been rejected
C5_Witness ==
    /\ ask_pc = "returned"
    /\ calls = 2
    /\ prompts >= 3
    /\ raw # None /\ IsBlank(raw)
    /\ ask_ret \in { <<"y">>, <<"n">> }

\* C16: a call of ask that obtains 'y' or 'n' leaves cached_answer unset
\* and changes last_answer to that answer and nothing else of the asker's
\* fields, so that the next call prompts again; a call answered from the
\* cache changes neither field.
C16_YesNoStaysFresh ==
    /\ [][ (ask_pc = "loop" /\ ask_pc' = "returned"
              /\ ask_ret' \in { <<"y">>, <<"n">> }) =>
                (cached_answer = None /\ cached_answer' = None
                   /\ last_answer' = ask_ret') ]_vars
    /\ [][ (ask_pc' = "returned" /\ ask_ret' \in { <<"y">>, <<"n">> }
              /\ calls' = calls + 1) => FALSE ]_vars
    /\ [][ (calls' = calls + 1 /\ ask_ret \in { <<"y">>, <<"n">> }
              /\ ask_pc = "returned") =>
                (ask_pc' = "loop" /\ answer' = <<>>) ]_vars
    /\ [][ (calls' = calls + 1 /\ cached_answer # None) =>
                (cached_answer' = cached_answer /\ last_answer' = last_answer
                   /\ prompts' = prompts) ]_vars

\* a second call was answered 'y' or 'n' after a first one was
C16_Witness ==
    /\ ask_pc = "returned"
    /\ calls = 2
    /\ ask_ret \in { <<"y">>, <<"n">> }
    /\ cached_answer = None
    /\ last_answer = ask_ret

\* C17: after every call of ask that has returned, from the cache or not,
\* last_answer is what the call returned; whenever cached_answer is set,
\* last_answer equals it.
C17_LastAnswerIsLastReturn ==
    /\ ask_pc = "returned" => last_answer = ask_ret
    /\ cached_answer # None => last_answer = cached_answer

\* C17, as it holds: after every call of ask that has returned, from the
\* cache or not, last_answer is what the call returned; whenever
\* cached_answer is set and the call that set it is past line 172,
\* last_answer equals it.
C17_LastAnswerFollowsReturn ==
    /\ ask_pc = "returned" => last_answer = ask_ret
    /\ (cached_answer # None /\ ask_pc # "cached") =>
           last_answer = cached_answer

\* the third call was answered from the cache
C17_Witness ==
    /\ ask_pc = "returned"
    /\ cached_answer # None
    /\ calls = 3
    /\ prompts = 2
    /\ last_answer = cached_answer

(***************************************************************************)
(* confirm, lines 199-204.                                                 *)
(***************************************************************************)
\* the answers that end the while loop, line 201
YesNo == { <<"y">>, <<"n">> }

\* the questions confirm is explored with
Questions == { <<"P","r","o","c","e","e","d","?"," ">>, <<"O","K","?">> }

ConfIdle ==
    /\ conf_question = None
    /\ conf_answer = None
    /\ conf_ret = None
    /\ conf_pc = "idle"

\* a call confirm(question)
ConfInit ==
    /\ conf_question \in Questions
    /\ conf_answer = None
    /\ conf_ret = None
    /\ conf_pc = "call"

\* line 200
ConfirmEnter ==
    /\ conf_pc = "call"
    /\ conf_answer' = <<>>
    /\ conf_pc' = "loop"
    /\ UNCHANGED <<conf_question, conf_ret>>
    /\ UNCHANGED notConf

\* lines 201-202: the while loop goes on and input() returns r
ConfirmRead(r) ==
    /\ conf_pc = "loop"
    /\ conf_answer \notin YesNo
    /\ prompts < MaxPrompts
    /\ conf_answer' = r
    /\ prompts' = prompts + 1
    /\ conf_pc' = "read"
    /\ UNCHANGED <<conf_question, conf_ret>>
    /\ UNCHANGED <<cached_answer, last_answer, answer, raw, question, ask_ret,
                   ask_pc, calls>>
    /\ UNCHANGED <<ffVars, upVars, fltVars, legVars, mainVars>>

\* line 203
ConfirmStrip ==
    /\ conf_pc = "read"
    /\ conf_answer' = strip_lower(conf_answer)
    /\ conf_pc' = "loop"
    /\ UNCHANGED <<conf_question, conf_ret>>
    /\ UNCHANGED notConf

\* lines 201-202: input() finds the end of the input and raises EOFError
ConfirmEOF ==
    /\ conf_pc = "loop"
    /\ conf_answer \notin YesNo
    /\ prompts < MaxPrompts
    /\ prompts' = prompts + 1
    /\ conf_pc' = "raised"
    /\ UNCHANGED <<conf_question, conf_answer, conf_ret>>
    /\ UNCHANGED <<cached_answer, last_answer, answer, raw, question, ask_ret,
                   ask_pc, calls>>
    /\ UNCHANGED <<ffVars, upVars, fltVars, legVars, mainVars>>

\* lines 201, 204
ConfirmReturn ==
    /\ conf_pc = "loop"
    /\ conf_answer \in YesNo
    /\ conf_ret' = (conf_answer = <<"y">>)
    /\ conf_pc' = "returned"
    /\ UNCHANGED <<conf_question, conf_answer>>
    /\ UNCHANGED notConf

ConfNext ==
    \/ ConfirmEnter
    \/ \E r \in RawInputs : ConfirmRead(r)
    \/ ConfirmStrip
    \/ ConfirmEOF
    \/ ConfirmReturn

(***************************************************************************)
(* update_packages, lines 180-196.                                         *)
(***************************************************************************)
\* pip_cmd(), lines 119-120; the first token stands for sys.executable
pip_cmd == << <<"p","y","t","h","o","n">>, <<"-","m">>, <<"p","i","p">> >>

\* the tokens ['install', '-U'] of line 181
install_U == << <<"i","n","s","t","a","l","l">>, <<"-","U">> >>

\* '{0}=={1}\n'.format(pkg['name'], pkg['version']), line 186
format_pin(pkg) == pkg.name \o <<"=","=">> \o pkg.version \o <<"\n">>

\* [pkg['name'] for pkg in packages], line 189
names_of(pkgs) == [ i \in 1..Len(pkgs) |-> pkgs[i].name ]

\* list.pop(), line 196
pop(l) == SubSeq(l, 1, Len(l) - 1)

\* the exit codes of pip install
RetCodes == { 0, 1 }

\* the package records update_packages is explored on
Pkg(n, v, l) == [ name |-> n, version |-> v, latest_version |-> l ]

PackageUniverse ==
    { Pkg(<<"f","o","o">>, <<"1",".","0">>, <<"2",".","0">>),
      Pkg(<<"b","a","r">>, <<"0",".","1">>, <<"0",".","2">>),
      Pkg(<<"F","o","o","-","b","2">>, <<"2">>, <<"2",".","0","r","c","1">>) }

\* what requirements.txt may hold before the run
OldFiles == { None, <<"o","l","d","=","=","9","\n">> }

\* what may be forwarded to pip install
InstallArgs == { <<>>, << <<"-","-","u","s","e","r">> >> }

UpIdle ==
    /\ packages = <<>>
    /\ up_forwarded = <<>>
    /\ continue_on_fail = FALSE
    /\ freeze_outdated_packages = FALSE
    /\ upgrade_cmd = <<>>
    /\ requirements = None
    /\ f_buf = None
    /\ invocations = <<>>
    /\ up_pc = "idle"
    /\ up_i = 0

\* a call update_packages(packages, up_forwarded, continue_on_fail,
\* freeze_outdated_packages)
UpInit ==
    /\ packages \in SeqsUpTo(PackageUniverse, MaxPkgs)
    /\ up_forwarded \in InstallArgs
    /\ continue_on_fail \in BOOLEAN
    /\ freeze_outdated_packages \in BOOLEAN
    /\ upgrade_cmd = <<>>
    /\ requirements \in OldFiles
    /\ f_buf = None
    /\ invocations = <<>>
    /\ up_pc = "start"
    /\ up_i = 0

\* lines 181, 183
UpBuild ==
    /\ up_pc = "start"
    /\ upgrade_cmd' = pip_cmd \o install_U \o up_forwarded
    /\ up_pc' = IF freeze_outdated_packages THEN "open" ELSE "install"
    /\ UNCHANGED <<packages, up_forwarded, continue_on_fail,
                   freeze_outdated_packages, requirements, f_buf,
                   invocations, up_i>>
    /\ UNCHANGED notUp

\* an open that appends
UpOpenAppend ==
    /\ up_pc = "open"
    /\ requirements' = IF requirements = None THEN <<>> ELSE requirements
    /\ f_buf' = <<>>
    /\ up_i' = 1
    /\ up_pc' = "write"
    /\ UNCHANGED <<packages, up_forwarded, continue_on_fail,
                   freeze_outdated_packages, upgrade_cmd, invocations>>
    /\ UNCHANGED notUp

\* line 184: open('requirements.txt', 'w') creates or truncates the file
UpOpen ==
    /\ up_pc = "open"
    /\ requirements' = <<>>
    /\ f_buf' = <<>>
    /\ up_i' = 1
    /\ up_pc' = "write"
    /\ UNCHANGED <<packages, up_forwarded, continue_on_fail,
                   freeze_outdated_packages, upgrade_cmd, invocations>>
    /\ UNCHANGED notUp

\* lines 185-186: one turn of the for loop
UpWrite ==
    /\ up_pc = "write"
    /\ up_i <= Len(packages)
    /\ f_buf' = f_buf \o format_pin(packages[up_i])
    /\ up_i' = up_i + 1
    /\ UNCHANGED <<packages, up_forwarded, continue_on_fail,
                   freeze_outdated_packages, upgrade_cmd, requirements,
                   invocations, up_pc>>
    /\ UNCHANGED notUp

\* line 184: leaving the with block closes f, which flushes what was written
UpClose ==
    /\ up_pc = "write"
    /\ up_i > Len(packages)
    /\ requirements' = requirements \o f_buf
    /\ f_buf' = None
    /\ up_pc' = "install"
    /\ UNCHANGED <<packages, up_forwarded, continue_on_fail,
                   freeze_outdated_packages, upgrade_cmd, invocations, up_i>>
    /\ UNCHANGED notUp

\* lines 188-189: the names of all the packages are appended
UpAppendAll ==
    /\ up_pc = "install"
    /\ ~continue_on_fail
    /\ upgrade_cmd' = upgrade_cmd \o names_of(packages)
    /\ up_pc' = "call_all"
    /\ UNCHANGED <<packages, up_forwarded, continue_on_fail,
                   freeze_outdated_packages, requirements, f_buf,
                   invocations, up_i>>
    /\ UNCHANGED notUp

\* an install that raises when pip fails, as subprocess.check_call would
UpInstallAllChecked(rc) ==
    /\ up_pc = "call_all"
    /\ invocations' = Append(invocations, [cmd |-> upgrade_cmd, retcode |-> rc])
    /\ up_pc' = IF rc = 0 THEN "done" ELSE "raised"
    /\ UNCHANGED <<packages, up_forwarded, continue_on_fail,
                   freeze_outdated_packages, upgrade_cmd, requirements,
                   f_buf, up_i>>
    /\ UNCHANGED notUp

\* lines 190-191: one invocation for all the packages, pip exiting with
\* rc, and update_packages returns
UpInstallAll(rc) ==
    /\ up_pc = "call_all"
    /\ invocations' = Append(invocations, [cmd |-> upgrade_cmd, retcode |-> rc])
    /\ up_pc' = "done"
    /\ UNCHANGED <<packages, up_forwarded, continue_on_fail,
                   freeze_outdated_packages, upgrade_cmd, requirements,
                   f_buf, up_i>>
    /\ UNCHANGED notUp

\* lines 188, 193: the for loop over the packages starts
UpForEach ==
    /\ up_pc = "install"
    /\ continue_on_fail
    /\ up_i' = 1
    /\ up_pc' = "loop"
    /\ UNCHANGED <<packages, up_forwarded, continue_on_fail,
                   freeze_outdated_packages, upgrade_cmd, requirements,
                   f_buf, invocations>>
    /\ UNCHANGED notUp

\* lines 193-194: a turn of the loop starts, the name is appended
UpAppendOne ==
    /\ up_pc = "loop"
    /\ up_i <= Len(packages)
    /\ upgrade_cmd' = upgrade_cmd \o << packages[up_i].name >>
    /\ up_pc' = "call_one"
    /\ UNCHANGED <<packages, up_forwarded, continue_on_fail,
                   freeze_outdated_packages, requirements, f_buf,
                   invocations, up_i>>
    /\ UNCHANGED notUp

\* line 195: the invocation for one package, pip exiting with rc
UpInstallOne(rc) ==
    /\ up_pc = "call_one"
    /\ invocations' = Append(invocations, [cmd |-> upgrade_cmd, retcode |-> rc])
    /\ up_pc' = "pop"
    /\ UNCHANGED <<packages, up_forwarded, continue_on_fail,
                   freeze_outdated_packages, upgrade_cmd, requirements,
                   f_buf, up_i>>
    /\ UNCHANGED notUp

\* an end of the turn that forgets upgrade_cmd.pop()
UpPopSkipped ==
    /\ up_pc = "pop"
    /\ up_i' = up_i + 1
    /\ up_pc' = "loop"
    /\ UNCHANGED <<packages, up_forwarded, continue_on_fail,
                   freeze_outdated_packages, upgrade_cmd, requirements,
                   f_buf, invocations>>
    /\ UNCHANGED notUp

\* line 196: the name is taken off again, and the turn ends
UpPop ==
    /\ up_pc = "pop"
    /\ upgrade_cmd' = pop(upgrade_cmd)
    /\ up_i' = up_i + 1
    /\ up_pc' = "loop"
    /\ UNCHANGED <<packages, up_forwarded, continue_on_fail,
                   freeze_outdated_packages, requirements, f_buf,
                   invocations>>
    /\ UNCHANGED notUp

\* line 193: the loop is exhausted, update_packages returns
UpReturn ==
    /\ up_pc = "loop"
    /\ up_i > Len(packages)
    /\ up_pc' = "done"
    /\ UNCHANGED <<packages, up_forwarded, continue_on_fail,
                   freeze_outdated_packages, upgrade_cmd, requirements,
                   f_buf, invocations, up_i>>
    /\ UNCHANGED notUp

UpNext ==
    \/ UpBuild
    \/ UpOpen
    \/ UpWrite
    \/ UpClose
    \/ UpAppendAll
    \/ \E rc \in RetCodes : UpInstallAll(rc)
    \/ UpForEach
    \/ UpAppendOne
    \/ \E rc \in RetCodes : UpInstallOne(rc)
    \/ UpPop
    \/ UpReturn

(***************************************************************************)
(* Properties of update_packages.                                          *)
(***************************************************************************)
\* text is made of exactly the lines ls, each ended by a newline
RECURSIVE IsLinesOf(_, _)
IsLinesOf(text, ls) ==
    IF ls = <<>>
    THEN text = <<>>
    ELSE LET l == Head(ls)
         IN  /\ Len(text) > Len(l)
             /\ SubSeq(text, 1, Len(l)) = l
             /\ text[Len(l) + 1] = "\n"
             /\ \A i \in 1..Len(l) : l[i] # "\n"
             /\ IsLinesOf(SubSeq(text, Len(l) + 2, Len(text)), Tail(ls))

\* the lines name==version of the packages, in list order
PinLines(pkgs) ==
    [ i \in 1..Len(pkgs) |-> pkgs[i].name \o <<"=","=">> \o pkgs[i].version ]

\* the install command without package names
BaseCommand ==
    << <<"p","y","t","h","o","n">>, <<"-","m">>, <<"p","i","p">>,
       <<"i","n","s","t","a","l","l">>, <<"-","U">> >> \o up_forwarded

\* C6: with freeze set, requirements.txt holds exactly one line
\* name==version per package given, in list order and nothing else, and is
\* closed, from before the first install invocation on, in both
\* continue-on-fail modes; with freeze not set the file is never written.
C6_SnapshotBeforeInstall ==
    /\ []((freeze_outdated_packages /\ (invocations # <<>> \/ up_pc = "done")) =>
            (f_buf = None /\ IsLinesOf(requirements, PinLines(packages))))
    /\ [][ ~freeze_outdated_packages => requirements' = requirements ]_vars

\* an old file was replaced by the snapshot of two packages, then pip ran
C6_Witness ==
    /\ freeze_outdated_packages
    /\ Len(packages) = 2 /\ packages[1] # packages[2]
    /\ invocations # <<>>
    /\ requirements = packages[1].name \o <<"=","=">> \o packages[1].version
                        \o <<"\n">> \o packages[2].name \o <<"=","=">>
                        \o packages[2].version \o <<"\n">>

\* C7: with continue_on_fail, pip install runs once per package in list
\* order, the command being the base command, the extra arguments and that
\* one package name, whatever the exit codes of the earlier invocations.
C7_OneInvocationPerPackage ==
    continue_on_fail =>
        /\ Len(invocations) <= Len(packages)
        /\ \A i \in 1..Len(invocations) :
               invocations[i].cmd = BaseCommand \o << packages[i].name >>
        /\ up_pc = "done" => Len(invocations) = Len(packages)

\* the first of two invocations failed and the second was made
C7_Witness ==
    /\ continue_on_fail
    /\ up_pc = "done"
    /\ Len(packages) = 2 /\ packages[1] # packages[2]
    /\ Len(invocations) = 2
    /\ invocations[1].retcode # 0

\* C8: without continue_on_fail, pip install runs exactly once, with the
\* extra arguments followed by every package name in list order, and
\* update_packages returns normally whatever the exit code.
C8_OneInvocationForAll ==
    ~continue_on_fail =>
        /\ Len(invocations) <= 1
        /\ up_pc # "raised"
        /\ up_pc = "done" => Len(invocations) = 1
        /\ invocations # <<>> =>
               /\ up_pc = "done"
               /\ invocations[1].cmd =
                      BaseCommand \o [ i \in 1..Len(packages) |-> packages[i].name ]

\* the single invocation for two packages failed and the call returned
C8_Witness ==
    /\ ~continue_on_fail
    /\ up_pc = "done"
    /\ Len(packages) = 2 /\ packages[1] # packages[2]
    /\ Len(invocations) = 1
    /\ invocations[1].retcode # 0

(***************************************************************************)
(* Regular expressions, as the module re matches them: a pattern is a      *)
(* tree, and Ends gives the positions at which a match of the tree that    *)
(* starts at pos may end, in the order the backtracking matcher tries      *)
(* them; the first one is the match re reports.  Positions count from 1,   *)
(* the end position is the one after the last character matched.  With     *)
(* re.IGNORECASE a character set holds lower-case letters and is compared  *)
(* with the lower-cased character of the text; among the characters up to  *)
(* U+00FF, which are those the model's strings hold, re.IGNORECASE makes   *)
(* two characters equal exactly when str.lower() does.                     *)
(***************************************************************************)
Chr(S) == [ t |-> "set", s |-> S ]
AnyChar == [ t |-> "any" ]
Bol == [ t |-> "bol" ]
Eol == [ t |-> "eol" ]
Eps == [ t |-> "eps" ]
Seq2(a, b) == [ t |-> "seq", a |-> a, b |-> b ]
Alt2(a, b) == [ t |-> "alt", a |-> a, b |-> b ]
Opt(a) == [ t |-> "opt", a |-> a ]
Star(a) == [ t |-> "star", a |-> a ]
Plus(a) == Seq2(a, Star(a))
\* (?>a), and a?+ and a*+ as Atomic(Opt(a)) and Atomic(Star(a)): once a has
\* matched, the matcher does not come back for another match of it
Atomic(a) == [ t |-> "atomic", a |-> a ]

\* the concatenation of the patterns ns
RECURSIVE Cat(_)
Cat(ns) ==
    IF ns = <<>> THEN Eps
    ELSE IF Len(ns) = 1 THEN ns[1]
    ELSE Seq2(Head(ns), Cat(Tail(ns)))

\* the alternation of the patterns ns, first alternative first
RECURSIVE AltOf(_)
AltOf(ns) ==
    IF Len(ns) = 1 THEN ns[1] ELSE Alt2(Head(ns), AltOf(Tail(ns)))

\* the literal string str, ignoring case
Lit(str) == Cat([ i \in 1..Len(str) |-> Chr({ lower_char(str[i]) }) ])

\* the character set S, compared as it is
In(S) == [ t |-> "in", s |-> S ]
\* the character set S as the parser holds it: form is << "literal", c >>
\* for the character with the code c, << "in" >> for a set, << "negated" >>
\* for [^c] and [^...], and << "any" >> for the dot
Unit(S, form) == [ t |-> "in", s |-> S, form |-> form ]
\* ^ and $ with re.MULTILINE, \A and \Z
MBol == [ t |-> "mbol" ]
MEol == [ t |-> "meol" ]
Bos == [ t |-> "bos" ]
Eos == [ t |-> "eos" ]
\* \b, and \B if neg, where W holds the characters of a word
WordB(neg, W) == [ t |-> "wordb", neg |-> neg, w |-> W ]
\* a{min,max}, min and max being codes and max MAXREPEAT if there is no
\* maximum; kind is "greedy", "lazy" for a{min,max}? and "possessive" for
\* a{min,max}+
Rep(min, max, kind, a) ==
    [ t |-> "rep", min |-> min, max |-> max, kind |-> kind, a |-> a ]
\* (a), the group number id
Group(id, a) == [ t |-> "group", id |-> id, a |-> a ]
\* (?:a)
NonCapture(a) == [ t |-> "nc", a |-> a ]
\* (?=a), (?!a) if neg; (?<=a) and (?<!a) with behind set, where width is
\* the length of what a matches
Look(behind, neg, width, a) ==
    [ t |-> "look", behind |-> behind, neg |-> neg, width |-> width, a |-> a ]
\* \id: what the group id matched, compared with the case folded as fold
\* says ("none", "ascii" or "unicode")
BackRef(id, fold) == [ t |-> "ref", id |-> id, fold |-> fold ]
\* (?(id)yes|no)
Cond(id, yes, no) == [ t |-> "cond", id |-> id, yes |-> yes, no |-> no ]

\* es without the elements that occur earlier in es: the matcher goes on
\* from a position in the same way each time it comes to it, so that only
\* the first time counts for the order
RECURSIVE FirstTimes(_)
FirstTimes(es) ==
    IF es = <<>> THEN <<>>
    ELSE LET r == FirstTimes(SubSeq(es, 1, Len(es) - 1))
         IN  IF \E i \in 1..Len(r) : r[i] = es[Len(es)]
             THEN r ELSE Append(r, es[Len(es)])

\* A state of the matcher is its position p in the text and the groups g
\* that have matched, a set of << id, start, end >>.
MatchState(pos, groups) == [ p |-> pos, g |-> groups ]

\* the group id has matched in the state st
HasGroup(st, id) == \E c \in st.g : c[1] = id

\* what the group id matched last in the state st, << id, start, end >>
GroupOf(st, id) == CHOOSE c \in st.g : c[1] = id

\* the state st at the position e, the group id having matched from the
\* position s to e
SetGroup(st, id, s, e) ==
    MatchState(e, { c \in st.g : c[1] # id } \cup { << id, s, e >> })

\* the character ch with its case folded as fold says
FoldChar(ch, fold) ==
    CASE fold = "unicode" -> lower_char(ch)
      [] fold = "ascii" ->
            IF \E i \in 1..26 : UpperCase[i] = ch
            THEN LowerCase[CHOOSE i \in 1..26 : UpperCase[i] = ch] ELSE ch
      [] OTHER -> ch

(***************************************************************************)
(* Counts and widths.  A compiled pattern holds them as 32-bit codes, the  *)
(* numbers from 0 to MAXREPEAT, 4294967295.  A code is held here as the    *)
(* signed 32-bit integer with the same bits: a number below 2147483648 is  *)
(* itself, a greater one is itself less 4294967296, and MAXREPEAT is -1.   *)
(***************************************************************************)
\* the upper and the lower 16 bits of the code c
code_hi(c) == (c \div 65536) % 65536
code_lo(c) == c % 65536

\* the code with the upper bits hi and the lower bits lo
code_of(hi, lo) ==
    IF hi < 32768 THEN hi * 65536 + lo ELSE (hi - 65536) * 65536 + lo

\* the number of the code a is less than that of b
code_less(a, b) == IF (a < 0) = (b < 0) THEN a < b ELSE b < 0

\* the number of the code c is 2147483648 or more
code_bit31(c) == c < 0

MAXREPEAT == code_of(65535, 65535)

\* the code of the number after that of c
code_succ(c) == IF c = 2147483647 THEN -2147483647 - 1 ELSE c + 1

\* the items that match one character, and those that match at a place
UnitTypes == { "set", "in", "any" }
AtTypes == { "bol", "eol", "mbol", "meol", "bos", "eos", "wordb" }

\* the character ch matches the item n
unit_holds(n, ch) ==
    CASE n.t = "set" -> lower_char(ch) \in n.s
      [] n.t = "in" -> ch \in n.s
      [] n.t = "any" -> ch # "\n"

\* the item n matches at the position pos of text
at_holds(n, text, pos) ==
    CASE n.t = "bol" -> pos = 1
      [] n.t = "eol" ->
            pos = Len(text) + 1 \/ (pos = Len(text) /\ text[pos] = "\n")
      [] n.t = "mbol" -> pos = 1 \/ text[pos - 1] = "\n"
      [] n.t = "meol" -> pos = Len(text) + 1 \/ text[pos] = "\n"
      [] n.t = "bos" -> pos = 1
      [] n.t = "eos" -> pos = Len(text) + 1
      [] n.t = "wordb" ->
            LET before == pos > 1 /\ text[pos - 1] \in n.w
                after == pos <= Len(text) /\ text[pos] \in n.w
            IN  text # <<>> /\ ((before # after) # n.neg)

RECURSIVE Run(_, _, _)
RECURSIVE RunFrom(_, _, _)
RECURSIVE StarFrom(_, _, _, _)
RECURSIVE Mandatory(_, _, _, _)
RECURSIVE RepMax(_, _, _, _, _)
RECURSIVE RepMaxFrom(_, _, _, _, _)
RECURSIVE RepMin(_, _, _, _, _)
RECURSIVE RepMinFrom(_, _, _, _, _)
RECURSIVE RepPoss(_, _, _, _)

\* the states after the matches of n that start at one of the states sts
RunFrom(n, text, sts) ==
    IF sts = <<>> THEN <<>>
    ELSE FirstTimes(Run(n, text, Head(sts)) \o RunFrom(n, text, Tail(sts)))

\* the states after the matches of the star n at st whose first iteration
\* ends at one of the states sts: an iteration that matched the empty
\* string is not followed by another one
StarFrom(n, text, st, sts) ==
    IF sts = <<>> THEN <<>>
    ELSE (IF Head(sts).p > st.p THEN Run(n, text, Head(sts))
          ELSE << Head(sts) >>)
            \o StarFrom(n, text, st, Tail(sts))

\* the states after the n.min iterations of the repeat n that have to
\* match, count of them having led to the states sts, in the order the
\* matcher tries them.  Another iteration has to match from each state; a
\* possessive repeat keeps the first match of the item only.  Once an
\* iteration leaves the states as they are, so does every further one.
Mandatory(n, text, sts, count) ==
    LET First(next) == IF next = <<>> THEN <<>> ELSE << next[1] >>
        kept(next) == IF n.kind = "possessive" THEN First(next) ELSE next
        again(next) == IF next = sts THEN sts
                       ELSE Mandatory(n, text, next, code_succ(count))
    IN  IF count = n.min \/ sts = <<>> THEN sts
        ELSE again(kept(RunFrom(n.a, text, sts)))

\* the states after the greedy repeat n, count iterations of which, the
\* minimum at least, have matched and have led to st; last is the position
\* at which the last iteration beyond the minimum began, 0 if there was
\* none.  Another iteration is tried first, unless the maximum is reached
\* or the iteration before began at this same position, and then the
\* repeat ends here.
RepMax(n, text, st, count, last) ==
    (IF (n.max = MAXREPEAT \/ code_less(count, n.max)) /\ st.p # last
     THEN RepMaxFrom(n, text, Run(n.a, text, st), code_succ(count), st.p)
     ELSE <<>>)
        \o << st >>

RepMaxFrom(n, text, sts, count, last) ==
    IF sts = <<>> THEN <<>>
    ELSE FirstTimes(RepMax(n, text, Head(sts), count, last)
                    \o RepMaxFrom(n, text, Tail(sts), count, last))

\* the states after the lazy repeat n: as RepMax, but the repeat ends here
\* first and another iteration is tried then
RepMin(n, text, st, count, last) ==
    << st >>
        \o (IF (n.max = MAXREPEAT \/ code_less(count, n.max)) /\ st.p # last
            THEN RepMinFrom(n, text, Run(n.a, text, st), code_succ(count), st.p)
            ELSE <<>>)

RepMinFrom(n, text, sts, count, last) ==
    IF sts = <<>> THEN <<>>
    ELSE FirstTimes(RepMin(n, text, Head(sts), count, last)
                    \o RepMinFrom(n, text, Tail(sts), count, last))

\* the state after the possessive repeat n, count iterations of which, the
\* minimum at least, have led to st: every iteration is the first match of
\* the item and is never given up; the repeat goes on until the maximum,
\* an iteration that fails or one that matched the empty string
RepPoss(n, text, st, count) ==
    LET sts == Run(n.a, text, st)
    IN  IF n.max # MAXREPEAT /\ ~code_less(count, n.max) THEN << st >>
        ELSE IF sts = <<>> THEN << st >>
        ELSE IF sts[1].p = st.p THEN << sts[1] >>
        ELSE RepPoss(n, text, sts[1], code_succ(count))

\* the states after the matches of n that start at st, in the order the
\* backtracking matcher tries them
Run(n, text, st) ==
    LET pos == st.p
        Step == << MatchState(pos + 1, st.g) >>
        Stay == << st >>
        First(sts) == IF sts = <<>> THEN <<>> ELSE << sts[1] >>
    IN
    CASE n.t \in UnitTypes ->
            IF pos <= Len(text) /\ unit_holds(n, text[pos]) THEN Step ELSE <<>>
      [] n.t \in AtTypes ->
            IF at_holds(n, text, pos) THEN Stay ELSE <<>>
      [] n.t = "eps" -> Stay
      [] n.t = "seq" -> FirstTimes(RunFrom(n.b, text, Run(n.a, text, st)))
      [] n.t = "alt" -> Run(n.a, text, st) \o Run(n.b, text, st)
      [] n.t = "opt" -> Run(n.a, text, st) \o Stay
      [] n.t = "star" ->
            FirstTimes(StarFrom(n, text, st, Run(n.a, text, st)) \o Stay)
      [] n.t = "rep" ->
            LET possessive(sts) ==
                    IF sts = <<>> THEN <<>>
                    ELSE RepPoss(n, text, sts[1], n.min)
                repeated(sts) ==
                    IF n.kind = "greedy"
                    THEN RepMaxFrom(n, text, sts, n.min, 0)
                    ELSE IF n.kind = "lazy"
                    THEN RepMinFrom(n, text, sts, n.min, 0)
                    ELSE possessive(sts)
            IN  repeated(Mandatory(n, text, << st >>, 0))
      [] n.t = "atomic" -> First(Run(n.a, text, st))
      [] n.t = "nc" -> Run(n.a, text, st)
      [] n.t = "group" ->
            LET sts == Run(n.a, text, st)
            IN  [ i \in 1..Len(sts) |-> SetGroup(sts[i], n.id, pos, sts[i].p) ]
      [] n.t = "look" ->
            \* a look-behind of 2147483648 characters or more begins
            \* before any text
            LET from == IF ~n.behind THEN pos
                        ELSE IF code_bit31(n.width) THEN 0
                        ELSE pos - n.width
                sts == IF from < 1 THEN <<>>
                       ELSE Run(n.a, text, MatchState(from, st.g))
            IN  IF n.neg THEN (IF sts = <<>> THEN Stay ELSE <<>>)
                ELSE IF sts = <<>> THEN <<>>
                ELSE << MatchState(pos, sts[1].g) >>
      [] n.t = "ref" ->
            IF ~HasGroup(st, n.id) THEN <<>>
            ELSE LET c == GroupOf(st, n.id)
                     len == c[3] - c[2]
                 IN  IF /\ pos + len <= Len(text) + 1
                        /\ \A k \in 0..(len - 1) :
                              FoldChar(text[pos + k], n.fold)
                                 = FoldChar(text[c[2] + k], n.fold)
                     THEN << MatchState(pos + len, st.g) >> ELSE <<>>
      [] n.t = "cond" ->
            IF HasGroup(st, n.id) THEN Run(n.yes, text, st)
            ELSE Run(n.no, text, st)

\* the positions at which a match of n that starts at pos may end, in the
\* order the backtracking matcher tries them
Ends(n, text, pos) ==
    LET sts == Run(n, text, MatchState(pos, {}))
    IN  FirstTimes([ i \in 1..Len(sts) |-> sts[i].p ])

\* the end of the match of n at pos, 0 if there is none
MatchEnd(n, text, pos) ==
    LET es == Ends(n, text, pos) IN IF es = <<>> THEN 0 ELSE es[1]

\* n.match(text) is not None
re_match(n, text) == MatchEnd(n, text, 1) # 0

\* n.match(text).group()
re_match_group(n, text) == SubSeq(text, 1, MatchEnd(n, text, 1) - 1)

\* n.search(text) is not None
re_search(n, text) == \E pos \in 1..(Len(text) + 1) : MatchEnd(n, text, pos) # 0

\* the end of the match of n at pos, which is not empty if advance is set;
\* 0 if there is none
ScanEnd(n, text, pos, advance) ==
    LET es == SelectSeq(Ends(n, text, pos), LAMBDA e : ~advance \/ e > pos)
    IN  IF es = <<>> THEN 0 ELSE es[1]

\* the matches the scanner finds from pos on: the leftmost match at or after
\* pos, then the matches from its end on; after an empty match the next
\* match at the same position has to be a longer one
RECURSIVE re_scan(_, _, _, _)
re_scan(n, text, pos, advance) ==
    LET starts == { p \in pos..(Len(text) + 1) :
                      ScanEnd(n, text, p, advance /\ p = pos) # 0 }
    IN  IF starts = {} THEN <<>>
        ELSE LET p == CHOOSE q \in starts : \A r \in starts : q <= r
                 e == ScanEnd(n, text, p, advance /\ p = pos)
             IN  << SubSeq(text, p, e - 1) >> \o re_scan(n, text, e, e = p)

\* [match.group() for match in n.finditer(text)], scanning from pos
re_finditer(n, text, pos) == re_scan(n, text, pos, FALSE)

(***************************************************************************)
(* The matcher, step by step.  pattern.search keeps the bounds of the      *)
(* groups in an array of marks and a number, lastmark; an attempt that     *)
(* fails puts lastmark back, and puts the marks back only inside the body  *)
(* of a repeat.  Where a later step reads a mark that an attempt that      *)
(* failed has written, the matches differ from those of Run, and the       *)
(* matcher is followed here as _sre runs it.                               *)
(***************************************************************************)
\* A state of the matcher: the position p, the marks m and lastmark lm.
\* m[2k - 1] is the start and m[2k] the end of the group k, 0 while there
\* is none; lm is the highest mark set, 0 if there is none.
SreState(p, m, lm) == [ p |-> p, m |-> m, lm |-> lm ]

\* the state s at the position p
sre_at(s, p) == [ s EXCEPT !.p = p ]

\* MARK i: the mark i is put at the position; the marks between lastmark
\* and i are cleared
sre_mark(s, i) ==
    IF i > s.lm
    THEN SreState(s.p,
                  [ j \in DOMAIN s.m |->
                      IF j = i THEN s.p
                      ELSE IF j > s.lm /\ j < i THEN 0 ELSE s.m[j] ],
                  i)
    ELSE SreState(s.p, [ s.m EXCEPT ![i] = s.p ], s.lm)

\* the group id has matched in the state s, as GROUPREF and
\* GROUPREF_EXISTS see it
sre_group_set(s, id) ==
    /\ s.lm >= 2 * id
    /\ s.m[2 * id - 1] # 0
    /\ s.m[2 * id] # 0
    /\ s.m[2 * id] >= s.m[2 * id - 1]

\* the state s once an attempt from it has failed and left the marks of
\* failed: LASTMARK_RESTORE, after mark_restore if marks is set
sre_restore(s, failed, marks) ==
    SreState(s.p,
             IF marks
             THEN [ j \in DOMAIN s.m |->
                      IF j <= s.lm THEN s.m[j] ELSE failed.m[j] ]
             ELSE failed.m,
             s.lm)

\* What is left to match is a sequence of steps: a pattern n, with inrep
\* set if it is run inside the body of a repeat (state->repeat is not
\* NULL); the mark i; and MAX_UNTIL or MIN_UNTIL of the repeat n, count
\* iterations of which have matched, the last one beyond the minimum from
\* the position last, with outer set if the repeat itself is inside the
\* body of another one.
SreNode(n, inrep) == [ op |-> "node", n |-> n, inrep |-> inrep ]
SreMark(i) == [ op |-> "mark", i |-> i ]
SreUntil(n, count, last, outer) ==
    [ op |-> "until", n |-> n, count |-> count, last |-> last,
      outer |-> outer ]

\* the pattern n without the (?:...) around it
RECURSIVE sre_item(_)
sre_item(n) == IF n.t = "nc" THEN sre_item(n.a) ELSE n

\* the alternatives of the pattern n
RECURSIVE sre_alternatives(_)
sre_alternatives(n) ==
    IF n.t = "alt" THEN << n.a >> \o sre_alternatives(n.b) ELSE << n >>

\* the alternatives of n are one character each, a literal or a set that
\* is not negated: _parse_sub, lines 474-490 of the parser, makes one set
\* of them
sre_charset(n) ==
    LET alts == sre_alternatives(n)
    IN  /\ n.t = "alt"
        /\ \A i \in 1..Len(alts) :
              /\ alts[i].t = "in"
              /\ alts[i].form[1] \in { "literal", "in" }

\* the alternatives of the set n may all be the same item, which
\* _parse_sub, lines 452-471, takes out of the alternation as its prefix:
\* they are if they are the same literal, they are not if they match
\* different characters, and the tree does not tell otherwise
sre_same_literal(n) ==
    LET alts == sre_alternatives(n)
    IN  \A i \in 1..Len(alts) : alts[i].form = alts[1].form
                                   /\ alts[i].form[1] = "literal"

sre_same_chars(n) ==
    LET alts == sre_alternatives(n)
    IN  \A i \in 1..Len(alts) : alts[i].s = alts[1].s

\* _simple, lines 63-72 of _compiler: the item of the repeat n is one
\* character, and the repeat is compiled as REPEAT_ONE, MIN_REPEAT_ONE or
\* POSSESSIVE_REPEAT_ONE
sre_simple(n) ==
    LET item == sre_item(n.a)
    IN  \/ item.t \in UnitTypes
        \/ sre_charset(item) /\ ~sre_same_chars(item)

\* whether the repeat n is simple cannot be told from the tree
sre_unclear(n) ==
    LET item == sre_item(n.a)
    IN  sre_charset(item) /\ sre_same_chars(item) /\ ~sre_same_literal(item)

\* the character ch matches the item n of a simple repeat
RECURSIVE sre_one(_, _)
sre_one(n, ch) ==
    CASE n.t = "nc" -> sre_one(n.a, ch)
      [] n.t = "alt" -> sre_one(n.a, ch) \/ sre_one(n.b, ch)
      [] OTHER -> unit_holds(n, ch)

\* SRE(count): the number of characters from pos on that match the item n
sre_count(n, text, pos) ==
    LET run(c) == \A j \in 0..(c - 1) : sre_one(n, text[pos + j])
        most == { c \in 0..(Len(text) + 1 - pos) : run(c) }
    IN  CHOOSE c \in most : \A d \in most : d <= c

(***************************************************************************)
(* SRE(match) keeps a stack of what it has begun and may come back to.     *)
(* The frames of the stack are named after its jumps.  Some are choices:   *)
(* the matcher comes back to them when what follows has failed.  The       *)
(* others are patterns matched on their own, up to their SUCCESS: the      *)
(* matcher comes back to them when the pattern has matched, without the    *)
(* choices made inside it, or when it has failed.                          *)
(***************************************************************************)
\* BRANCH: the alternatives n are left, k follows, s is the state the
\* branch began in
SreBranch(n, inrep, k, s) ==
    [ j |-> "branch", n |-> n, inrep |-> inrep, k |-> k, s |-> s ]
\* the end of a BRANCH that began in s: nothing is left but to put back
\* lastmark, and the marks if marks is set
SreRestore(s, marks) == [ j |-> "restore", s |-> s, marks |-> marks ]
\* REPEAT_ONE and MIN_REPEAT_ONE of the repeat n, the tail k tried after c
\* characters; the item matches most times from s on, low at least
SreRepeatOne(n, inrep, k, s, low, most, c) ==
    [ j |-> IF n.kind = "greedy" THEN "repeat_one" ELSE "min_repeat_one",
      n |-> n, inrep |-> inrep, k |-> k, s |-> s, low |-> low,
      most |-> most, c |-> c ]
\* MAX_UNTIL and MIN_UNTIL, the step f having been reached in the state s
\* with k to follow
SreUntilChoice(f, k, s) ==
    [ j |-> IF f.n.kind = "greedy" THEN "max_until" ELSE "min_until",
      f |-> f, k |-> k, s |-> s ]
\* ATOMIC_GROUP, ASSERT and ASSERT_NOT, begun in the state s
SreAlone(j, inrep, k, s) ==
    [ j |-> j, inrep |-> inrep, k |-> k, s |-> s ]
\* POSSESSIVE_REPEAT of the repeat n: an iteration begun in the state s,
\* count iterations having matched before; j is "possessive_min" below the
\* minimum and "possessive_max" from it on
SrePossessive(j, n, inrep, k, s, count) ==
    [ j |-> j, n |-> n, inrep |-> inrep, k |-> k, s |-> s, count |-> count ]
\* the search for the pattern n from the position p, final being the last
\* position to try
SreSearch(n, p, final) == [ j |-> "search", n |-> n, p |-> p, final |-> final ]

\* the frames of the patterns matched on their own
SreAloneFrames ==
    { "atomic", "assert", "assert_not", "possessive_min", "possessive_max",
      "search" }

\* The matcher is at the steps k in the state s with the stack st, the
\* last frame first; or it has failed, and s holds the marks as they were
\* left; or the search is over, with a match that led to s or with none.
SreGo(k, s, st) == [ mode |-> "run", k |-> k, s |-> s, st |-> st ]
SreBack(s, st) == [ mode |-> "fail", k |-> <<>>, s |-> s, st |-> st ]
SreOver(mode, s, st) == [ mode |-> mode, k |-> <<>>, s |-> s, st |-> st ]

\* the marks of a search for a pattern of ng groups, none set, at p
sre_fresh(p, ng) == SreState(p, [ j \in 1..(2 * ng) |-> 0 ], 0)

\* the repeat n may go beyond count iterations
sre_more(n, count) == n.max = MAXREPEAT \/ code_less(count, n.max)

\* the steps of another iteration of the repeat of the step f, which
\* remembers that it began at last
sre_body(f, last, k) ==
    << SreNode(f.n.a, TRUE),
       SreUntil(f.n, code_succ(f.count), last, f.outer) >> \o k

\* MAX_UNTIL and MIN_UNTIL, the step f: after an iteration of the body of
\* the repeat f.n, or before the first one.  Below the minimum another
\* iteration has to match.  Beyond it MAX_UNTIL tries another iteration
\* first, unless the maximum is reached or the last one began here, and
\* MIN_UNTIL tries the tail first.
sre_until(f, k, s, st) ==
    IF code_less(f.count, f.n.min) THEN SreGo(sre_body(f, f.last, k), s, st)
    ELSE IF f.n.kind = "lazy"
    THEN SreGo(k, s, << SreUntilChoice(f, k, s) >> \o st)
    ELSE IF sre_more(f.n, f.count) /\ s.p # f.last
    THEN SreGo(sre_body(f, s.p, k), s, << SreUntilChoice(f, k, s) >> \o st)
    ELSE SreGo(k, s, st)

\* POSSESSIVE_REPEAT from the minimum on: iterations while the maximum
\* allows and the last one did not begin here, then the tail
sre_possessive_max(n, inrep, k, s, count, last, st) ==
    IF sre_more(n, count) /\ s.p # last
    THEN SreGo(<< SreNode(n.a, inrep) >>, s,
               << SrePossessive("possessive_max", n, inrep, k, s, count) >>
                   \o st)
    ELSE SreGo(k, s, st)

\* POSSESSIVE_REPEAT below the minimum, count iterations having matched:
\* each iteration is matched on its own and kept
sre_possessive_min(n, inrep, k, s, count, st) ==
    IF count = n.min THEN sre_possessive_max(n, inrep, k, s, count, 0, st)
    ELSE SreGo(<< SreNode(n.a, inrep) >>, s,
               << SrePossessive("possessive_min", n, inrep, k, s, count) >>
                   \o st)

\* the pattern n at the state s, then the steps k
sre_op(n, inrep, k, text, s, st) ==
    LET pos == s.p
        then(a) == << SreNode(a, inrep) >> \o k
        \* the pattern a matched on its own from the position from
        alone(j, a, from) ==
            SreGo(<< SreNode(a, inrep) >>, sre_at(s, from),
                  << SreAlone(j, inrep, k, s) >> \o st)
    IN
    CASE n.t \in UnitTypes ->
            IF pos <= Len(text) /\ unit_holds(n, text[pos])
            THEN SreGo(k, sre_at(s, pos + 1), st) ELSE SreBack(s, st)
      [] n.t \in AtTypes ->
            IF at_holds(n, text, pos) THEN SreGo(k, s, st)
            ELSE SreBack(s, st)
      [] n.t = "eps" -> SreGo(k, s, st)
      [] n.t = "seq" ->
            SreGo(<< SreNode(n.a, inrep), SreNode(n.b, inrep) >> \o k, s, st)
      [] n.t = "nc" -> SreGo(then(n.a), s, st)
      [] n.t = "group" ->
            SreGo(<< SreNode(n.a, inrep), SreMark(2 * n.id) >> \o k,
                  sre_mark(s, 2 * n.id - 1), st)
      [] n.t = "alt" ->
            SreGo(then(n.a), s, << SreBranch(n.b, inrep, k, s) >> \o st)
      [] n.t = "ref" ->
            LET from == s.m[2 * n.id - 1]
                len == s.m[2 * n.id] - from
            IN  IF /\ sre_group_set(s, n.id)
                   /\ pos + len <= Len(text) + 1
                   /\ \A j \in 0..(len - 1) :
                         FoldChar(text[pos + j], n.fold)
                            = FoldChar(text[from + j], n.fold)
                THEN SreGo(k, sre_at(s, pos + len), st)
                ELSE SreBack(s, st)
      [] n.t = "cond" ->
            IF sre_group_set(s, n.id) THEN SreGo(then(n.yes), s, st)
            ELSE SreGo(then(n.no), s, st)
      [] n.t = "atomic" -> alone("atomic", n.a, pos)
      [] n.t = "look" ->
            \* a look-behind of 2147483648 characters or more begins
            \* before any text
            LET from == IF ~n.behind THEN pos
                        ELSE IF code_bit31(n.width) THEN 0
                        ELSE pos - n.width
            IN  IF from >= 1
                THEN alone(IF n.neg THEN "assert_not" ELSE "assert",
                           n.a, from)
                ELSE IF n.neg THEN SreGo(k, s, st)
                ELSE SreBack(s, st)
      [] n.t = "rep" ->
            IF sre_simple(n)
            THEN LET run == sre_count(n.a, text, pos)
                     \* the counts are codes; those of 2147483648 and
                     \* more are beyond any text
                     most == IF code_bit31(n.max) \/ n.max > run THEN run
                             ELSE n.max
                     first == IF n.kind = "lazy" THEN n.min ELSE most
                 IN  IF code_bit31(n.min) \/ n.min > most THEN SreBack(s, st)
                     ELSE IF n.kind = "possessive"
                     THEN SreGo(k, sre_at(s, pos + most), st)
                     ELSE SreGo(k, sre_at(s, pos + first),
                                << SreRepeatOne(n, inrep, k, s, n.min, most,
                                                first) >> \o st)
            ELSE IF n.kind = "possessive"
            THEN sre_possessive_min(n, inrep, k, s, 0, st)
            ELSE sre_until(SreUntil(n, 0, 0, inrep), k, s, st)

\* what follows has failed and has left the marks of failed: the matcher
\* comes back to the last frame of the stack
sre_failed(failed, text, st) ==
    LET top == Head(st)
        rest == Tail(st)
    IN
    CASE top.j = "branch" ->
            \* lastmark is put back after an alternative, and the marks
            \* are inside the body of a repeat
            LET back == sre_restore(top.s, failed, top.inrep)
                next == IF top.n.t = "alt" THEN top.n.a ELSE top.n
                left == IF top.n.t = "alt"
                        THEN SreBranch(top.n.b, top.inrep, top.k, top.s)
                        ELSE SreRestore(top.s, top.inrep)
            IN  SreGo(<< SreNode(next, top.inrep) >> \o top.k, back,
                      << left >> \o rest)
      [] top.j = "restore" ->
            SreBack(sre_restore(top.s, failed, top.marks), rest)
      [] top.j = "repeat_one" ->
            \* the tail after one character less
            LET back == sre_restore(top.s, failed, top.inrep)
            IN  IF top.c > top.low
                THEN SreGo(top.k, sre_at(back, top.s.p + top.c - 1),
                           << [ top EXCEPT !.c = top.c - 1 ] >> \o rest)
                ELSE SreBack(back, rest)
      [] top.j = "min_repeat_one" ->
            \* the tail after one character more
            LET back == sre_restore(top.s, failed, top.inrep)
            IN  IF top.c < top.most
                THEN SreGo(top.k, sre_at(back, top.s.p + top.c + 1),
                           << [ top EXCEPT !.c = top.c + 1 ] >> \o rest)
                ELSE SreBack(back, rest)
      [] top.j = "max_until" ->
            \* the iteration failed: the marks are put back and the tail
            \* follows
            SreGo(top.k, sre_restore(top.s, failed, TRUE), rest)
      [] top.j = "min_until" ->
            \* the tail failed, which ran with the repeat around this
            \* one: another iteration, if the maximum allows and the last
            \* one did not begin here
            LET back == sre_restore(top.s, failed, top.f.outer)
            IN  IF sre_more(top.f.n, top.f.count) /\ top.s.p # top.f.last
                THEN SreGo(sre_body(top.f, top.s.p, top.k), back, rest)
                ELSE SreBack(back, rest)
      [] top.j \in { "atomic", "assert", "possessive_min" } ->
            SreBack(failed, rest)
      [] top.j = "assert_not" ->
            SreGo(top.k, sre_restore(top.s, failed, top.inrep), rest)
      [] top.j = "possessive_max" ->
            \* the iteration that fails is undone, marks and all, and the
            \* tail follows
            SreGo(top.k, sre_restore(top.s, failed, TRUE), rest)
      [] top.j = "search" ->
            IF top.p < top.final
            THEN SreGo(<< SreNode(top.n, FALSE) >>,
                       sre_fresh(top.p + 1, Len(failed.m) \div 2),
                       << SreSearch(top.n, top.p + 1, top.final) >>)
            ELSE SreOver("none", failed, st)

\* a pattern matched on its own has matched and led to the state r: the
\* matcher comes back to its frame, the last such frame of the stack, and
\* the choices made since are given up
sre_succeeded(r, text, st) ==
    LET i == CHOOSE i \in 1..Len(st) :
                /\ st[i].j \in SreAloneFrames
                /\ \A h \in 1..(i - 1) : st[h].j \notin SreAloneFrames
        top == st[i]
        rest == SubSeq(st, i + 1, Len(st))
    IN
    CASE top.j = "atomic" -> SreGo(top.k, r, rest)
      [] top.j = "assert" -> SreGo(top.k, sre_at(r, top.s.p), rest)
      [] top.j = "assert_not" -> SreBack(r, rest)
      [] top.j = "possessive_min" ->
            \* once an iteration leaves the state as it is, so does every
            \* further one
            IF r = top.s
            THEN sre_possessive_max(top.n, top.inrep, top.k, r, top.n.min,
                                    0, rest)
            ELSE sre_possessive_min(top.n, top.inrep, top.k, r,
                                    code_succ(top.count), rest)
      [] top.j = "possessive_max" ->
            sre_possessive_max(top.n, top.inrep, top.k, r,
                               code_succ(top.count), top.s.p, rest)
      [] top.j = "search" -> SreOver("done", r, << top >>)

\* one step of the matcher
sre_step(c, text) ==
    IF c.mode = "fail" THEN sre_failed(c.s, text, c.st)
    ELSE IF c.k = <<>> THEN sre_succeeded(c.s, text, c.st)
    ELSE LET f == Head(c.k)
         IN  CASE f.op = "node" ->
                    sre_op(f.n, f.inrep, Tail(c.k), text, c.s, c.st)
               [] f.op = "mark" -> SreGo(Tail(c.k), sre_mark(c.s, f.i), c.st)
               [] f.op = "until" -> sre_until(f, Tail(c.k), c.s, c.st)

\* the matcher after 2^times steps from c, or when the search is over
RECURSIVE sre_steps(_, _, _)
sre_steps(c, text, times) ==
    IF c.mode \in { "done", "none" } THEN c
    ELSE IF times = 0 THEN sre_step(c, text)
    ELSE LET half == sre_steps(c, text, times - 1)
         IN  sre_steps(half, text, times - 1)

\* the patterns the pattern n is made of
SreParts(n) ==
    CASE n.t \in { "seq", "alt" } -> { n.a, n.b }
      [] n.t \in { "nc", "group", "atomic", "look", "rep" } -> { n.a }
      [] n.t = "cond" -> { n.yes, n.no }
      [] OTHER -> {}

\* there is a group in the pattern n
RECURSIVE sre_has_group(_)
sre_has_group(n) ==
    n.t = "group" \/ \E a \in SreParts(n) : sre_has_group(a)

\* there is a (?(id)...) in the pattern n
RECURSIVE sre_asks(_, _)
sre_asks(n, id) ==
    (n.t = "cond" /\ n.id = id) \/ \E a \in SreParts(n) : sre_asks(a, id)

\* a step of the pattern n may read a mark that an attempt that failed has
\* written: an iteration of a POSSESSIVE_REPEAT begins with the marks the
\* iterations before have left, and (?(id)...) inside the group id reads
\* the start of the group as it is now and its end as it was
RECURSIVE sre_reads_marks(_)
sre_reads_marks(n) ==
    \/ n.t = "rep" /\ n.kind = "possessive"
         /\ ~sre_simple(n) /\ sre_has_group(n.a)
    \/ n.t = "group" /\ sre_asks(n.a, n.id)
    \/ \E a \in SreParts(n) : sre_reads_marks(a)

(***************************************************************************)
(* re.compile, as CPython 3.11 reads a pattern: the tokens of the pattern, *)
(* the character sets, and the parser, which gives the tree of the pattern *)
(* or an error.  The characters are those from U+0001 to U+00FF, U+0060    *)
(* apart, which a string of this module cannot hold.                       *)
(***************************************************************************)
\* chr(k) for k in 1..255; "" stands at the place of U+0060
CharOf ==
    <<
       "", "", "", "", "", "", "", "",
       "\t", "\n", "", "\f", "\r", "", "", "",
       "", "", "", "", "", "", "", "",
       "", "", "", "", "", "", "", " ",
       "!", "\"", "#", "$", "%", "&", "'", "(",
       ")", "*", "+", ",", "-", ".", "/", "0",
       "1", "2", "3", "4", "5", "6", "7", "8",
       "9", ":", ";", "<", "=", ">", "?", "@",
       "A", "B", "C", "D", "E", "F", "G", "H",
       "I", "J", "K", "L", "M", "N", "O", "P",
       "Q", "R", "S", "T", "U", "V", "W", "X",
       "Y", "Z", "[", "\\", "]", "^", "_", "",
       "a", "b", "c", "d", "e", "f", "g", "h",
       "i", "j", "k", "l", "m", "n", "o", "p",
       "q", "r", "s", "t", "u", "v", "w", "x",
       "y", "z", "{", "|", "}", "~", "", "",
       "", "", "", "", "", "", "", "",
       "", "", "", "", "", "", "", "",
       "", "", "", "", "", "", "", "",
       "", "", "", "", "", "", "", " ",
       "¡", "¢", "£", "¤", "¥", "¦", "§", "¨",
       "©", "ª", "«", "¬", "­", "®", "¯", "°",
       "±", "²", "³", "´", "µ", "¶", "·", "¸",
       "¹", "º", "»", "¼", "½", "¾", "¿", "À",
       "Á", "Â", "Ã", "Ä", "Å", "Æ", "Ç", "È",
       "É", "Ê", "Ë", "Ì", "Í", "Î", "Ï", "Ð",
       "Ñ", "Ò", "Ó", "Ô", "Õ", "Ö", "×", "Ø",
       "Ù", "Ú", "Û", "Ü", "Ý", "Þ", "ß", "à",
       "á", "â", "ã", "ä", "å", "æ", "ç", "è",
       "é", "ê", "ë", "ì", "í", "î", "ï", "ð",
       "ñ", "ò", "ó", "ô", "õ", "ö", "÷", "ø",
       "ù", "ú", "û", "ü", "ý", "þ", "ÿ" >>

Codes == { k \in 1..255 : k # 96 }
AllChars == { CharOf[k] : k \in Codes }

\* ord(ch)
Code(ch) == CHOOSE k \in Codes : CharOf[k] = ch

\* the characters whose codes are in K
CharsOf(K) == { CharOf[k] : k \in K \cap Codes }

DigitCodes == 48..57
OctDigitCodes == 48..55
HexDigitCodes == 48..57 \cup 65..70 \cup 97..102
AsciiLetterCodes == 65..90 \cup 97..122
\* \s: with re.ASCII [ \t\n\r\f\v], else the characters of str.isspace
SpaceCodes(ascii) ==
    IF ascii THEN 9..13 \cup { 32 }
    ELSE 9..13 \cup 28..32 \cup { 133, 160 }
\* \w: with re.ASCII [a-zA-Z0-9_], else the alphanumeric characters and _
WordCodes(ascii) ==
    IF ascii THEN DigitCodes \cup AsciiLetterCodes \cup { 95 }
    ELSE DigitCodes \cup AsciiLetterCodes \cup { 95 }
            \cup { 170, 178, 179, 181, 185, 186, 188, 189, 190 }
            \cup (192..255 \ { 215, 247 })
\* the characters str.isidentifier admits at the start of a name and after
IdStartCodes ==
    AsciiLetterCodes \cup { 95, 170, 181, 186 } \cup (192..255 \ { 215, 247 })
IdContinueCodes == IdStartCodes \cup DigitCodes \cup { 183 }

\* the lower-case character of the code k, for re.IGNORECASE; with re.ASCII
\* only the ASCII letters have cases
LowerCode(k, ascii) ==
    IF k \in 65..90 THEN k + 32
    ELSE IF ~ascii /\ k \in 192..222 /\ k # 215 THEN k + 32
    ELSE k

\* the upper-case character of the code k
UpperCode(k, ascii) ==
    IF k \in 97..122 THEN k - 32
    ELSE IF ~ascii /\ k \in 224..254 /\ k # 247 THEN k - 32
    ELSE k

(***************************************************************************)
(* Tokenizer: a token is a character, or a backslash and the character     *)
(* that follows it.                                                        *)
(***************************************************************************)
\* the tokens of pat from the index i on; a backslash at the end of the
\* pattern is an error, which the token << >> stands for
RECURSIVE tokens_from(_, _)
tokens_from(pat, i) ==
    IF i > Len(pat) THEN <<>>
    ELSE IF pat[i] = "\\"
         THEN IF i = Len(pat) THEN << <<>> >>
              ELSE << << pat[i], pat[i + 1] >> >> \o tokens_from(pat, i + 2)
         ELSE << << pat[i] >> >> \o tokens_from(pat, i + 1)

\* the token at the index i of toks, None after the last
tok_at(toks, i) == IF i <= Len(toks) THEN toks[i] ELSE None

\* the token is the character ch
is_char(tok, ch) == tok = << ch >>

\* the token is one character with a code in K
is_in(tok, K) == tok # None /\ Len(tok) = 1 /\ tok[1] \in CharsOf(K)

(***************************************************************************)
(* The state of the parser: the index i of the next token, the number ng   *)
(* of groups opened, the groups closed with their widths, the names of     *)
(* the groups, the first group of the look-behind the parser is in (0 if   *)
(* it is in none), the groups that conditions refer to by number, and the  *)
(* flags in force.                                                         *)
(***************************************************************************)
ParserState(i, ng, closed, names, lb, refs, f) ==
    [ i |-> i, ng |-> ng, closed |-> closed, names |-> names, lb |-> lb,
      refs |-> refs, f |-> f ]

\* re.error, or another exception, is raised
Error == [ err |-> TRUE, outside |-> FALSE ]

\* the pattern is outside this module: it uses \N{...}, the names of the
\* characters not being modelled, or it changes ASCII or UNICODE for a
\* group, (?a:...) or (?u:...), for which _compile_info builds the set of
\* the first characters of a search under the flags of the whole pattern
Outside == [ err |-> FALSE, outside |-> TRUE ]

\* the value of the hexadecimal digit ch
hex_value(ch) ==
    LET k == Code(ch)
    IN  IF k \in 48..57 THEN k - 48
        ELSE IF k \in 65..70 THEN k - 55 ELSE k - 87

\* int(digits, base) for the tokens toks[from..to]
RECURSIVE int_of(_, _, _, _)
int_of(toks, from, to, base) ==
    IF to < from THEN 0
    ELSE int_of(toks, from, to - 1, base) * base + hex_value(toks[to][1])

\* source.getwhile(n, charset): the number of tokens from i on, n at most,
\* that are characters with codes in K
RECURSIVE getwhile(_, _, _, _)
getwhile(toks, i, n, K) ==
    IF n > 0 /\ is_in(tok_at(toks, i), K)
    THEN 1 + getwhile(toks, i + 1, n - 1, K) ELSE 0

\* the index of the first token from i on that is the character ch, 0 if
\* there is none
RECURSIVE index_of(_, _, _)
index_of(toks, i, ch) ==
    IF i > Len(toks) THEN 0
    ELSE IF is_char(toks[i], ch) THEN i ELSE index_of(toks, i + 1, ch)

\* state.checkgroup(gid)
checkgroup(ps, gid) == gid <= ps.ng /\ \E c \in ps.closed : c[1] = gid

\* state.checklookbehindgroup(gid, source) raises no error
lookbehindgroup_ok(ps, gid) ==
    ps.lb = 0 \/ (checkgroup(ps, gid) /\ gid < ps.lb)

\* a literal, a character set or another atom that an escape gives
Literal(i, code) == [ err |-> FALSE, outside |-> FALSE, i |-> i,
                      kind |-> "literal", code |-> code ]
Category(i, name) == [ err |-> FALSE, outside |-> FALSE, i |-> i,
                       kind |-> "category", name |-> name ]
At(i, name) == [ err |-> FALSE, outside |-> FALSE, i |-> i,
                 kind |-> "at", name |-> name ]
GroupRef(i, gid) == [ err |-> FALSE, outside |-> FALSE, i |-> i,
                      kind |-> "groupref", gid |-> gid ]

\* the escapes \xhh, \uhhhh, \Uhhhhhhhh and \N{name}, which are read in
\* the same way in a character set and outside: the token at i - 1 is the
\* escape, with the letter c
numeric_escape(toks, i, c) ==
    CASE c = "x" ->
            IF getwhile(toks, i, 2, HexDigitCodes) = 2
            THEN Literal(i + 2, int_of(toks, i, i + 1, 16)) ELSE Error
      [] c = "u" ->
            IF getwhile(toks, i, 4, HexDigitCodes) = 4
            THEN Literal(i + 4, int_of(toks, i, i + 3, 16)) ELSE Error
      [] c = "U" ->
            IF getwhile(toks, i, 8, HexDigitCodes) = 8
            THEN IF /\ int_of(toks, i, i + 1, 16) = 0
                    /\ int_of(toks, i + 2, i + 7, 16) <= 1114111
                 THEN Literal(i + 8, int_of(toks, i + 2, i + 7, 16))
                 ELSE Error
            ELSE Error
      [] c = "N" ->
            IF ~is_char(tok_at(toks, i), "{") THEN Error
            ELSE LET e == index_of(toks, i + 1, "}")
                 IN  IF e = 0 \/ e = i + 1 THEN Error ELSE Outside

\* ESCAPES: \a \b \f \n \r \t \v \\
simple_escape_code(c) ==
    CASE c = "a" -> 7 [] c = "b" -> 8 [] c = "f" -> 12 [] c = "n" -> 10
      [] c = "r" -> 13 [] c = "t" -> 9 [] c = "v" -> 11 [] c = "\\" -> 92
      [] OTHER -> 0

\* _class_escape: the escape at the index i - 1, in a character set
class_escape(toks, i) ==
    LET c == toks[i - 1][2]
    IN  IF simple_escape_code(c) # 0 THEN Literal(i, simple_escape_code(c))
        ELSE IF c \in { "d", "D", "s", "S", "w", "W" } THEN Category(i, c)
        ELSE IF c \in { "x", "u", "U", "N" } THEN numeric_escape(toks, i, c)
        ELSE IF c \in CharsOf(OctDigitCodes)
        THEN LET n == getwhile(toks, i, 2, OctDigitCodes)
                 v == int_of(toks, i, i + n - 1, 8)
                         + hex_value(c) * (IF n = 2 THEN 64 ELSE IF n = 1 THEN 8 ELSE 1)
             IN  IF v > 255 THEN Error ELSE Literal(i + n, v)
        ELSE IF c \in CharsOf(DigitCodes \cup AsciiLetterCodes) THEN Error
        ELSE Literal(i, Code(c))

\* _escape: the escape at the index i - 1, outside a character set
escape(toks, ps, i) ==
    LET c == toks[i - 1][2]
        t1 == tok_at(toks, i)
        t2 == tok_at(toks, i + 1)
    IN  IF c \in { "d", "D", "s", "S", "w", "W" } THEN Category(i, c)
        ELSE IF c \in { "A", "Z", "b", "B" } THEN At(i, c)
        ELSE IF simple_escape_code(c) # 0 THEN Literal(i, simple_escape_code(c))
        ELSE IF c \in { "x", "u", "U", "N" } THEN numeric_escape(toks, i, c)
        ELSE IF c = "0"
        THEN LET n == getwhile(toks, i, 2, OctDigitCodes)
             IN  Literal(i + n, int_of(toks, i, i + n - 1, 8))
        ELSE IF c \in CharsOf(DigitCodes)
        THEN IF /\ is_in(t1, OctDigitCodes) /\ is_in(t2, OctDigitCodes)
                /\ c \in CharsOf(OctDigitCodes)
             THEN \* three octal digits
                  LET v == hex_value(c) * 64 + int_of(toks, i, i + 1, 8)
                  IN  IF v > 255 THEN Error ELSE Literal(i + 2, v)
             ELSE \* a reference to a group, of one or two digits
                  LET two == is_in(t1, DigitCodes)
                      gid == IF two THEN hex_value(c) * 10 + hex_value(t1[1])
                             ELSE hex_value(c)
                      j == IF two THEN i + 1 ELSE i
                  IN  IF gid <= ps.ng /\ checkgroup(ps, gid)
                         /\ lookbehindgroup_ok(ps, gid)
                      THEN GroupRef(j, gid) ELSE Error
        ELSE IF c \in CharsOf(AsciiLetterCodes) THEN Error
        ELSE Literal(i, Code(c))

\* << c, k >>: the character with the code c above 255 and the one with the
\* code k are the same but for their case, by the tables of _sre
OtherCases ==
    { << 304, 73 >>, << 304, 105 >>, << 305, 73 >>, << 305, 105 >>,
      << 376, 255 >>, << 383, 83 >>, << 383, 115 >>, << 924, 181 >>,
      << 956, 181 >>, << 7838, 223 >>, << 8490, 75 >>, << 8490, 107 >>,
      << 8491, 197 >>, << 8491, 229 >> }

\* the code of the upper case of the character with the code k by the
\* Unicode tables, which RANGE_UNI_IGNORE in _sre uses for a range that
\* goes beyond U+FFFF whatever the flags
UnicodeUpperCode(k) ==
    IF k \in 97..122 \/ (k \in 224..254 /\ k # 247) THEN k - 32
    ELSE IF k = 181 THEN 924
    ELSE IF k = 255 THEN 376
    ELSE k

(***************************************************************************)
(* Character sets.                                                         *)
(***************************************************************************)
\* the characters the literal with the code c matches under the flags f
literal_chars(c, f) ==
    CharsOf({ k \in Codes :
                IF f.i
                THEN \/ LowerCode(k, f.a) = LowerCode(c, f.a)
                     \/ ~f.a /\ << c, k >> \in OtherCases
                ELSE k = c })

\* the codes of the category \d, \s, \w, \D, \S or \W
category_codes(name, f) ==
    CASE name = "d" -> DigitCodes
      [] name = "s" -> SpaceCodes(f.a)
      [] name = "w" -> WordCodes(f.a)
      [] name = "D" -> Codes \ DigitCodes
      [] name = "S" -> Codes \ SpaceCodes(f.a)
      [] name = "W" -> Codes \ WordCodes(f.a)

\* a member of a character set: the codes from lo to hi, or a category
CodeRange(lo, hi) == [ k |-> "range", lo |-> lo, hi |-> hi ]
CategoryMember(name) == [ k |-> "category", name |-> name ]

\* the characters of the set [members], of [^members] if negate, under f
class_chars(members, negate, f) ==
    LET has(k) ==
            \E m \in members :
                IF m.k = "category" THEN k \in category_codes(m.name, f)
                ELSE IF f.i
                     THEN \/ LowerCode(k, f.a) \in m.lo..m.hi
                          \/ UpperCode(k, f.a) \in m.lo..m.hi
                          \/ k \in m.lo..m.hi
                          \/ ~f.a /\ \E o \in OtherCases :
                                        o[2] = k /\ o[1] \in m.lo..m.hi
                          \/ m.hi >= 65536 /\ UnicodeUpperCode(k) \in m.lo..m.hi
                     ELSE k \in m.lo..m.hi
    IN  CharsOf({ k \in Codes : has(k) # negate })

\* a result of the parser of character sets: the index after the set and
\* its members
ClassResult(i, members) ==
    [ err |-> FALSE, outside |-> FALSE, i |-> i, members |-> members ]

\* the members of a character set from the token i on, lines 562-618 of
\* the parser: members holds those read so far
RECURSIVE class_members(_, _, _)
class_members(toks, i, members) ==
    LET this == tok_at(toks, i)
        \* the range from code1 to code2
        range_to(code1, code2) ==
            IF code2.err \/ code2.outside THEN code2
            ELSE IF code1.kind # "literal" \/ code2.kind # "literal" THEN Error
            ELSE IF code2.code < code1.code THEN Error
            ELSE class_members(toks, code2.i,
                               members \cup { CodeRange(code1.code, code2.code) })
        \* code1 is the member the token this gives
        after_first(code1) ==
            IF code1.err \/ code1.outside THEN code1
            ELSE
            LET one == IF code1.kind = "category" THEN CategoryMember(code1.name)
                       ELSE CodeRange(code1.code, code1.code)
                that == tok_at(toks, code1.i + 1)
            IN  IF ~is_char(tok_at(toks, code1.i), "-")
                THEN class_members(toks, code1.i, members \cup { one })
                ELSE IF that = None \/ that = <<>> THEN Error
                ELSE IF is_char(that, "]")
                THEN ClassResult(code1.i + 2,
                                 members \cup { one, CodeRange(45, 45) })
                ELSE range_to(code1,
                              IF Len(that) = 2
                              THEN class_escape(toks, code1.i + 2)
                              ELSE Literal(code1.i + 2, Code(that[1])))
    IN  IF this = None \/ this = <<>> THEN Error
        ELSE IF is_char(this, "]") /\ members # {} THEN ClassResult(i + 1, members)
        ELSE after_first(IF Len(this) = 2 THEN class_escape(toks, i + 1)
                         ELSE Literal(i + 1, Code(this[1])))

(***************************************************************************)
(* Widths: the least and the greatest length of what a pattern matches.    *)
(* A width is << 0, c >>, the number of the code c, or Over, a number      *)
(* greater than MAXCODE: the parser counts widths as unbounded integers up *)
(* to MAXWIDTH, 2^64, and the compiler asks of a width only whether it is  *)
(* greater than MAXCODE and whether two widths are equal.                  *)
(***************************************************************************)
MAXCODE == code_of(65535, 65535)
MAXGROUPS == 1073741823

Over == << 1, 0 >>
Width(c) == << 0, c >>

\* a + b of two codes: << 1, 0 >> if the sum is greater than MAXCODE
code_sum(a, b) ==
    LET lo == code_lo(a) + code_lo(b)
        hi == code_hi(a) + code_hi(b) + lo \div 65536
    IN  IF hi >= 65536 THEN Over ELSE Width(code_of(hi, lo % 65536))

\* a * b of two codes, << 1, 0 >> if it is greater than MAXCODE: the
\* product of the lower halves, and that of the upper half of one with the
\* lower half of the other, 65536 times; the product of two halves is
\* itself taken by halves, the first factor being split into its upper and
\* its lower 8 bits
code_product(a, b) ==
    LET halves(p1, p0) ==
            << p1 \div 256 + ((p1 % 256) * 256 + p0) \div 65536,
               ((p1 % 256) * 256 + p0) % 65536 >>
        product(x, y) == halves((x \div 256) * y, (x % 256) * y)
        low == product(code_lo(a), code_lo(b))
        cross == IF code_hi(a) = 0 THEN product(code_lo(a), code_hi(b))
                 ELSE product(code_hi(a), code_lo(b))
        hi == low[1] + cross[2]
    IN  IF code_hi(a) > 0 /\ code_hi(b) > 0 THEN Over
        ELSE IF cross[1] > 0 \/ hi >= 65536 THEN Over
        ELSE Width(code_of(hi, low[2]))

\* lo + i, hi + j
width_add(a, b) ==
    IF a = Over \/ b = Over THEN Over ELSE code_sum(a[2], b[2])

\* i * av[0], j * av[1]: the width a, k times, k being a code
width_times(a, k) ==
    IF k = 0 \/ a = Width(0) THEN Width(0)
    ELSE IF a = Over THEN Over
    ELSE code_product(a[2], k)

width_less(a, b) ==
    a # Over /\ (b = Over \/ code_less(a[2], b[2]))
width_min(a, b) == IF width_less(a, b) THEN a ELSE b
width_max(a, b) == IF width_less(a, b) THEN b ELSE a

\* getwidth: << lo, hi >>, the least and the greatest length of what the
\* tree n matches; closed holds the widths of the groups closed.  The
\* greatest length of a repeat without an upper bound is MAXWIDTH unless
\* that of its item is 0
RECURSIVE getwidth(_, _)
getwidth(n, closed) ==
    LET sum(a, b) == << width_add(a[1], b[1]), width_add(a[2], b[2]) >>
        either(a, b) == << width_min(a[1], b[1]), width_max(a[2], b[2]) >>
        times(a) == << width_times(a[1], n.min),
                       IF n.max = MAXREPEAT /\ a[2] # Width(0) THEN Over
                       ELSE width_times(a[2], n.max) >>
        optional(a) == << Width(0), a[2] >>
    IN
    CASE n.t \in { "set", "in", "any" } -> << Width(1), Width(1) >>
      [] n.t = "seq" -> sum(getwidth(n.a, closed), getwidth(n.b, closed))
      [] n.t = "alt" -> either(getwidth(n.a, closed), getwidth(n.b, closed))
      [] n.t = "rep" -> times(getwidth(n.a, closed))
      [] n.t \in { "group", "nc", "atomic" } -> getwidth(n.a, closed)
      [] n.t = "ref" ->
            LET c == CHOOSE c \in closed : c[1] = n.id IN << c[2], c[3] >>
      [] n.t = "cond" ->
            IF n.no.t = "eps" THEN optional(getwidth(n.yes, closed))
            ELSE either(getwidth(n.yes, closed), getwidth(n.no, closed))
      [] OTHER -> << Width(0), Width(0) >>

(***************************************************************************)
(* The parser, _parse_sub and _parse.                                      *)
(***************************************************************************)
\* SPECIAL_CHARS, REPEAT_CHARS, WHITESPACE and the letters of the flags
SpecialChars == { ".", "\\", "[", "{", "(", ")", "*", "+", "?", "^", "$", "|" }
RepeatChars == { "*", "+", "?", "{" }
WhitespaceCodes == 9..13 \cup { 32 }
FlagChars == { "i", "L", "m", "s", "x", "a", "t", "u" }

\* a result of the parser: its state and the items of a sequence, or the
\* tree of a pattern
Items(ps, items) ==
    [ err |-> FALSE, outside |-> FALSE, ps |-> ps, items |-> items ]
Tree(ps, n) == [ err |-> FALSE, outside |-> FALSE, ps |-> ps, n |-> n ]

\* ps at the token i
at_token(ps, i) == [ ps EXCEPT !.i = i ]

\* the tree of the atom an escape gives
escape_tree(e, f) ==
    CASE e.kind = "literal" ->
            Unit(literal_chars(e.code, f), << "literal", e.code >>)
      [] e.kind = "category" ->
            Unit(CharsOf(category_codes(e.name, f)), << "in" >>)
      [] e.kind = "groupref" ->
            BackRef(e.gid, IF ~f.i THEN "none"
                           ELSE IF f.a THEN "ascii" ELSE "unicode")
      [] e.kind = "at" ->
            CASE e.name = "A" -> Bos
              [] e.name = "Z" -> Eos
              [] e.name = "b" -> WordB(FALSE, CharsOf(WordCodes(f.a)))
              [] e.name = "B" -> WordB(TRUE, CharsOf(WordCodes(f.a)))

\* the digits toks[from..to] without the zeros at their start
RECURSIVE first_nonzero(_, _, _)
first_nonzero(toks, from, to) ==
    IF from > to THEN from
    ELSE IF toks[from] = << "0" >> THEN first_nonzero(toks, from + 1, to)
    ELSE from

\* the number toks[from..to] names is MAXREPEAT, 4294967295, or greater
too_large(toks, from, to) ==
    LET s == first_nonzero(toks, from, to)
        n == to - s + 1
    IN  \/ n > 10
        \/ n = 10 /\ \/ int_of(toks, s, s + 4, 10) > 42949
                     \/ /\ int_of(toks, s, s + 4, 10) = 42949
                        /\ int_of(toks, s + 5, to, 10) >= 67295

\* int(toks[from..to]) as a code, the number being less than MAXREPEAT: a
\* number of ten digits is 100000 times that of its first five digits and
\* that of its last five
count_of(toks, from, to) ==
    LET s == first_nonzero(toks, from, to)
    IN  IF to - s + 1 < 10 THEN int_of(toks, s, to, 10)
        ELSE code_sum(code_product(int_of(toks, s, s + 4, 10), 100000)[2],
                      int_of(toks, s + 5, to, 10))[2]

\* the number toks[a..b] names is less than the one toks[c..d] names
number_less(toks, a, b, c, d) ==
    LET s == first_nonzero(toks, a, b)
        t == first_nonzero(toks, c, d)
        m == b - s + 1
        n == d - t + 1
    IN  \/ m < n
        \/ m = n /\ \E k \in 0..(m - 1) :
                      /\ hex_value(toks[s + k][1]) < hex_value(toks[t + k][1])
                      /\ \A j \in 0..(k - 1) : toks[s + j] = toks[t + j]

\* the flag letters from the token i on: the index of the token after
\* them and the letters
RECURSIVE flag_letters(_, _)
flag_letters(toks, i) ==
    LET this == tok_at(toks, i)
    IN  IF this # None /\ Len(this) = 1 /\ this[1] \in FlagChars
        THEN LET r == flag_letters(toks, i + 1)
             IN  [ i |-> r.i, letters |-> r.letters \cup { this[1] } ]
        ELSE [ i |-> i, letters |-> {} ]

\* _parse_flags, the token at i being the first after "(?": whether the
\* flags are global, the flags turned on and off, and the index after
\* the ")" or the ":"
FlagsResult(global, add, del, i) ==
    [ err |-> FALSE, outside |-> FALSE, global |-> global, add |-> add,
      del |-> del, i |-> i ]

parse_flags(toks, i) ==
    LET on == flag_letters(toks, i)
        after == tok_at(toks, on.i)
        off == flag_letters(toks, on.i + 1)
    IN  IF "L" \in on.letters \/ { "a", "u" } \subseteq on.letters THEN Error
        ELSE IF on.letters # {} /\ is_char(after, ")")
        THEN FlagsResult(TRUE, on.letters, {}, on.i + 1)
        ELSE IF on.letters # {} /\ is_char(after, ":")
        THEN IF "t" \in on.letters THEN Error
             ELSE FlagsResult(FALSE, on.letters, {}, on.i + 1)
        ELSE IF is_char(after, "-")
        THEN IF \/ "t" \in on.letters
                \/ off.letters = {}
                \/ off.letters \cap { "a", "u", "L", "t" } # {}
                \/ ~is_char(tok_at(toks, off.i), ":")
                \/ on.letters \cap off.letters # {}
             THEN Error
             ELSE FlagsResult(FALSE, on.letters, off.letters, off.i + 1)
        ELSE Error

\* the flags f with those of add turned on and those of del turned off
combine_flags(f, add, del) ==
    [ i |-> (f.i \/ "i" \in add) /\ "i" \notin del,
      m |-> (f.m \/ "m" \in add) /\ "m" \notin del,
      s |-> (f.s \/ "s" \in add) /\ "s" \notin del,
      x |-> (f.x \/ "x" \in add) /\ "x" \notin del,
      a |-> IF "a" \in add THEN TRUE ELSE IF "u" \in add THEN FALSE ELSE f.a,
      t |-> f.t \/ "t" \in add,
      ga |-> f.ga, gu |-> f.gu ]

\* the name toks[from..to] is an identifier
is_identifier(toks, from, to) ==
    /\ from <= to
    /\ is_in(toks[from], IdStartCodes)
    /\ \A k \in (from + 1)..to : is_in(toks[k], IdContinueCodes)

\* the characters of the tokens toks[from..to]
name_of(toks, from, to) == [ k \in 1..(to - from + 1) |-> toks[from + k - 1][1] ]

\* the characters int() strips from the ends of a string: the ASCII
\* whitespace, and the spaces above U+007F, which int() takes for U+0020;
\* U+001C to U+001F are not among them
IntSpaceCodes == 9..13 \cup { 32, 133, 160 }

\* int(name) for the name toks[from..to] of a condition: 0 if it is none
\* or not positive, and MAXGROUPS if it is that number or a greater one
cond_number(toks, from, to) ==
    LET blank(k) == is_in(toks[k], IntSpaceCodes)
        B == { k \in from..to : ~blank(k) }
        s0 == IF B = {} THEN to + 1 ELSE CHOOSE k \in B : \A j \in B : k <= j
        e == IF B = {} THEN to ELSE CHOOSE k \in B : \A j \in B : j <= k
        s == IF s0 <= e /\ is_char(toks[s0], "+") THEN s0 + 1 ELSE s0
        digit(k) == is_in(toks[k], DigitCodes)
        D == { k \in s..e : digit(k) }
        well == /\ s <= e
                /\ digit(s) /\ digit(e)
                /\ \A k \in s..e :
                      \/ digit(k)
                      \/ is_char(toks[k], "_") /\ digit(k - 1) /\ digit(k + 1)
        RECURSIVE value(_)
        capped(v) == IF v >= MAXGROUPS THEN MAXGROUPS ELSE v
        with_digit(v, k) ==
            IF v >= MAXGROUPS \div 5 THEN MAXGROUPS
            ELSE capped(v * 10 + hex_value(toks[k][1]))
        value(k) ==
            IF k < s THEN 0
            ELSE IF digit(k) THEN with_digit(value(k - 1), k)
            ELSE value(k - 1)
    IN  IF well THEN value(e) ELSE 0

RECURSIVE parse_sub(_, _, _)
RECURSIVE parse_alternatives(_, _, _, _)
RECURSIVE parse(_, _, _, _)
RECURSIVE parse_item(_, _, _, _, _)
RECURSIVE parse_group(_, _, _, _)

\* the last item of items is repeated from min to max times, the token at
\* ps.i being the first after the repeat: lines 659-677
repeat_item(toks, ps, items, min, max) ==
    LET item == items[Len(items)]
        lazy == is_char(tok_at(toks, ps.i), "?")
        possessive == is_char(tok_at(toks, ps.i), "+")
        kind == IF lazy THEN "lazy"
                ELSE IF possessive THEN "possessive" ELSE "greedy"
    IN  IF items = <<>> THEN Error
        ELSE IF item.t \in AtTypes \/ item.t = "rep" THEN Error
        ELSE IF ps.f.t THEN Error
        ELSE Items(at_token(ps, IF lazy \/ possessive THEN ps.i + 1 ELSE ps.i),
                   [ items EXCEPT ![Len(items)] = Rep(min, max, kind, item) ])

\* a repeat, the token before ps.i being ch, one of * + ? {: lines 620-677
parse_repeat(toks, ps, ch, items) ==
    LET brace == Unit(literal_chars(123, ps.f), << "literal", 123 >>)
        nlo == getwhile(toks, ps.i, Len(toks), DigitCodes)
        j == ps.i + nlo
        comma == is_char(tok_at(toks, j), ",")
        nhi == IF comma THEN getwhile(toks, j + 1, Len(toks), DigitCodes) ELSE 0
        k == IF comma THEN j + 1 + nhi ELSE j
        \* the digits of the maximum
        h1 == IF comma THEN j + 1 ELSE ps.i
        h2 == IF comma THEN j + nhi ELSE j - 1
    IN  CASE ch = "?" -> repeat_item(toks, ps, items, 0, 1)
          [] ch = "*" -> repeat_item(toks, ps, items, 0, MAXREPEAT)
          [] ch = "+" -> repeat_item(toks, ps, items, 1, MAXREPEAT)
          [] ch = "{" ->
                IF is_char(tok_at(toks, ps.i), "}")
                THEN Items(ps, Append(items, brace))
                ELSE IF ~is_char(tok_at(toks, k), "}")
                THEN Items(ps, Append(items, brace))
                ELSE IF nlo > 0 /\ too_large(toks, ps.i, j - 1) THEN Error
                ELSE IF h2 >= h1 /\ too_large(toks, h1, h2) THEN Error
                ELSE IF h2 >= h1 /\ nlo > 0
                        /\ number_less(toks, h1, h2, ps.i, j - 1)
                THEN Error
                ELSE repeat_item(toks, at_token(ps, k + 1), items,
                                 IF nlo > 0 THEN count_of(toks, ps.i, j - 1)
                                 ELSE 0,
                                 IF h2 >= h1 THEN count_of(toks, h1, h2)
                                 ELSE MAXREPEAT)

\* _parse_sub: an alternation a|b|c from the token ps.i on; nested is
\* set in a group
parse_sub(toks, ps, nested) == parse_alternatives(toks, ps, nested, <<>>)

\* the alternatives of an alternation, alts being those read
parse_alternatives(toks, ps, nested, alts) ==
    LET after(r) ==
            IF r.err \/ r.outside THEN r
            ELSE IF is_char(tok_at(toks, r.ps.i), "|")
            THEN parse_alternatives(toks, at_token(r.ps, r.ps.i + 1), nested,
                                    Append(alts, Cat(r.items)))
            ELSE Tree(r.ps, AltOf(Append(alts, Cat(r.items))))
    IN  after(parse(toks, ps, <<>>, ~nested /\ alts = <<>>))

\* _parse: a sequence of items from the token ps.i on up to a "|", a ")"
\* or the end of the pattern; items holds those read, first is set for
\* the first alternative of the pattern
parse(toks, ps, items, first) ==
    LET this == tok_at(toks, ps.i)
        newline == index_of(toks, ps.i + 1, "\n")
    IN  IF this = None \/ is_char(this, "|") \/ is_char(this, ")")
        THEN Items(ps, items)
        ELSE IF this = <<>> THEN Error
        ELSE IF ps.f.x /\ is_in(this, WhitespaceCodes)
        THEN parse(toks, at_token(ps, ps.i + 1), items, first)
        ELSE IF ps.f.x /\ is_char(this, "#")
        THEN parse(toks,
                   at_token(ps, IF newline = 0 THEN Len(toks) + 1
                                ELSE newline + 1),
                   items, first)
        ELSE LET after(r) == IF r.err \/ r.outside THEN r
                              ELSE parse(toks, r.ps, r.items, first)
             IN  after(parse_item(toks, at_token(ps, ps.i + 1), this, items,
                                  first))

\* one item, the token this before ps.i being its first
parse_item(toks, ps, this, items, first) ==
    IF Len(this) = 2
    THEN LET after(e) ==
                 IF e.err \/ e.outside THEN e
                 ELSE Items(at_token(ps, e.i),
                            Append(items, escape_tree(e, ps.f)))
         IN  after(escape(toks, ps, ps.i))
    ELSE IF this[1] \notin SpecialChars
    THEN Items(ps, Append(items, Unit(literal_chars(Code(this[1]), ps.f),
                                     << "literal", Code(this[1]) >>)))
    ELSE IF this[1] = "["
    THEN LET negate == is_char(tok_at(toks, ps.i), "^")
             after(c) ==
                 IF c.err \/ c.outside THEN c
                 ELSE Items(at_token(ps, c.i),
                            Append(items,
                                   Unit(class_chars(c.members, negate, ps.f),
                                        IF negate THEN << "negated" >>
                                        ELSE << "in" >>)))
         IN  after(class_members(toks, IF negate THEN ps.i + 1 ELSE ps.i, {}))
    ELSE IF this[1] \in RepeatChars
    THEN parse_repeat(toks, ps, this[1], items)
    ELSE IF this[1] = "."
    THEN Items(ps, Append(items, Unit(IF ps.f.s THEN AllChars
                                      ELSE AllChars \ { "\n" }, << "any" >>)))
    ELSE IF this[1] = "("
    THEN parse_group(toks, ps, items, first)
    ELSE IF this[1] = "^"
    THEN Items(ps, Append(items, IF ps.f.m THEN MBol ELSE Bol))
    ELSE Items(ps, Append(items, IF ps.f.m THEN MEol ELSE Eol))

\* the contents of a group and its ")", from the token ps.i on, under the
\* flags f: the tree of the contents
group_contents(toks, ps, f) ==
    LET after(r) ==
            IF r.err \/ r.outside THEN r
            ELSE IF ~is_char(tok_at(toks, r.ps.i), ")") THEN Error
            ELSE Tree([ r.ps EXCEPT !.i = r.ps.i + 1, !.f = ps.f ], r.n)
    IN  after(parse_sub(toks, [ ps EXCEPT !.f = f ], TRUE))

\* a group, the token before ps.i being its "(": lines 694-873
parse_group(toks, ps, items, first) ==
    LET t1 == tok_at(toks, ps.i)
        char == tok_at(toks, ps.i + 1)
        t3 == tok_at(toks, ps.i + 2)
        i3 == ps.i + 2
        \* the group number of a capturing group
        gid == ps.ng + 1
        \* the group gid is closed, r being its contents of the width w
        closed(r, w) ==
            Items([ r.ps EXCEPT !.closed =
                      r.ps.closed \cup { << gid, w[1], w[2] >> } ],
                  Append(items, Group(gid, r.n)))
        captured(r) ==
            IF r.err \/ r.outside THEN r
            ELSE closed(r, getwidth(r.n, r.ps.closed))
        capture(name, from) ==
            captured(group_contents(toks,
                        [ ps EXCEPT !.i = from, !.ng = gid,
                                    !.names = IF name = None THEN ps.names
                                              ELSE ps.names \cup { << name, gid >> } ],
                        ps.f))
        wrapped(r, wrap(_)) ==
            IF r.err \/ r.outside THEN r
            ELSE Items(r.ps, Append(items, wrap(r.n)))
        plain(from, f, wrap(_)) ==
            wrapped(group_contents(toks, at_token(ps, from), f), wrap)
        \* the assertion with the contents r of the width w
        asserted(r, w, behind, neg) ==
            \* "looks too much behind", "look-behind requires fixed-width
            \* pattern"
            IF behind /\ (w[1] = Over \/ w[1] # w[2]) THEN Error
            ELSE Items([ r.ps EXCEPT !.lb = ps.lb ],
                       Append(items,
                              Look(behind, neg,
                                   IF behind THEN w[1][2] ELSE 0, r.n)))
        looked(r, behind, neg) ==
            IF r.err \/ r.outside THEN r
            ELSE asserted(r, getwidth(r.n, r.ps.closed), behind, neg)
        look(from, behind, neg) ==
            looked(group_contents(toks,
                        [ ps EXCEPT !.i = from,
                                    !.lb = IF behind /\ ps.lb = 0 THEN gid
                                           ELSE ps.lb ],
                        ps.f),
                   behind, neg)
        \* the index of the token that ends a name begun at i3
        gt == index_of(toks, i3 + 1, ">")
        rp == index_of(toks, i3 + 1, ")")
        rp2 == index_of(toks, ps.i + 2, ")")
        named(name) == \E c \in ps.names : c[1] = name
        gid_of(name) == (CHOOSE c \in ps.names : c[1] = name)[2]
    IN  IF ~is_char(t1, "?") THEN capture(None, ps.i)
        ELSE IF char = None \/ char = <<>> THEN Error
        ELSE IF is_char(char, "P")
        THEN IF is_char(t3, "<")
             THEN IF gt = 0 \/ ~is_identifier(toks, i3 + 1, gt - 1) THEN Error
                  ELSE IF named(name_of(toks, i3 + 1, gt - 1)) THEN Error
                  ELSE capture(name_of(toks, i3 + 1, gt - 1), gt + 1)
             ELSE IF is_char(t3, "=")
             THEN IF rp = 0 \/ ~is_identifier(toks, i3 + 1, rp - 1) THEN Error
                  ELSE IF ~named(name_of(toks, i3 + 1, rp - 1)) THEN Error
                  ELSE LET g == gid_of(name_of(toks, i3 + 1, rp - 1))
                       IN  IF checkgroup(ps, g) /\ lookbehindgroup_ok(ps, g)
                           THEN Items(at_token(ps, rp + 1),
                                      Append(items,
                                             escape_tree(GroupRef(0, g), ps.f)))
                           ELSE Error
             ELSE Error
        ELSE IF is_char(char, ":")
        THEN plain(ps.i + 2, ps.f, NonCapture)
        ELSE IF is_char(char, "#")
        THEN IF rp2 = 0 THEN Error ELSE Items(at_token(ps, rp2 + 1), items)
        ELSE IF is_char(char, "=") THEN look(ps.i + 2, FALSE, FALSE)
        ELSE IF is_char(char, "!") THEN look(ps.i + 2, FALSE, TRUE)
        ELSE IF is_char(char, "<")
        THEN IF is_char(t3, "=") THEN look(ps.i + 3, TRUE, FALSE)
             ELSE IF is_char(t3, "!") THEN look(ps.i + 3, TRUE, TRUE)
             ELSE Error
        ELSE IF is_char(char, "(")
        THEN \* a condition: (?(name)yes|no)
             LET by_name == rp2 # 0 /\ is_identifier(toks, ps.i + 2, rp2 - 1)
                 name == name_of(toks, ps.i + 2, rp2 - 1)
                 \* the two branches of the condition on the group g
                 branches(g, yes, no) ==
                     IF no.err \/ no.outside THEN no
                     ELSE IF ~is_char(tok_at(toks, no.ps.i), ")") THEN Error
                     ELSE Items(at_token(no.ps, no.ps.i + 1),
                                Append(items,
                                       Cond(g, Cat(yes.items), Cat(no.items))))
                 after_yes(g, yes) ==
                     IF yes.err \/ yes.outside THEN yes
                     ELSE branches(g, yes,
                                   IF is_char(tok_at(toks, yes.ps.i), "|")
                                   THEN parse(toks,
                                              at_token(yes.ps, yes.ps.i + 1),
                                              <<>>, FALSE)
                                   ELSE Items(yes.ps, <<>>))
                 on_group(g) ==
                     IF ~by_name /\ g = 0 THEN Error
                     ELSE IF ~by_name /\ g >= MAXGROUPS THEN Error
                     ELSE IF ~lookbehindgroup_ok(ps, g) THEN Error
                     ELSE after_yes(g,
                                    parse(toks,
                                          [ ps EXCEPT
                                              !.i = rp2 + 1,
                                              !.refs = IF by_name THEN ps.refs
                                                       ELSE ps.refs \cup { g } ],
                                          <<>>, FALSE))
             IN  IF rp2 = 0 \/ rp2 = ps.i + 2 THEN Error
                 ELSE IF by_name /\ ~named(name) THEN Error
                 ELSE on_group(IF by_name THEN gid_of(name)
                               ELSE cond_number(toks, ps.i + 2, rp2 - 1))
        ELSE IF is_char(char, ">")
        THEN plain(ps.i + 2, ps.f, Atomic)
        ELSE IF is_char(char, "-") \/ (Len(char) = 1 /\ char[1] \in FlagChars)
        THEN LET flags(fl) ==
                 IF fl.err THEN Error
                 ELSE IF fl.global
                 THEN IF ~first \/ items # <<>> THEN Error
                      ELSE Items([ ps EXCEPT
                                     !.i = fl.i,
                                     !.f = [ combine_flags(ps.f, fl.add, {})
                                               EXCEPT !.ga = ps.f.ga \/ "a" \in fl.add,
                                                      !.gu = ps.f.gu \/ "u" \in fl.add ] ],
                                 items)
                 ELSE IF ("a" \in fl.add /\ ~ps.f.ga) \/ ("u" \in fl.add /\ ps.f.ga)
                 THEN Outside
                 ELSE plain(fl.i, combine_flags(ps.f, fl.add, fl.del), NonCapture)
             IN  flags(parse_flags(toks, ps.i + 1))
        ELSE Error

\* the matcher is followed up to this many iterations that a REPEAT has to
\* match and that may all match the empty string
MaxFollowed == 64

\* the pattern n is one the steps of the matcher are not followed on: it
\* has a repeat of which the tree does not tell how it is compiled, or one
\* that has to match more than MaxFollowed times what may be empty
RECURSIVE sre_beyond(_, _)
sre_beyond(n, closed) ==
    \/ /\ n.t = "rep"
       /\ n.kind # "possessive"
       /\ \/ sre_unclear(n)
          \/ /\ ~sre_simple(n)
             /\ code_bit31(n.min) \/ n.min > MaxFollowed
             /\ getwidth(n.a, closed)[1] = Width(0)
    \/ \E a \in SreParts(n) : sre_beyond(a, closed)

\* re.compile(pattern, re.IGNORECASE), line 243: the tree of the pattern,
\* or the error that is raised
re_compile(pat) ==
    LET toks == tokens_from(pat, 1)
        ps == ParserState(1, 0, {}, {}, 0, {},
                          [ i |-> TRUE, m |-> FALSE, s |-> FALSE, x |-> FALSE,
                            a |-> FALSE, t |-> FALSE, ga |-> FALSE,
                            gu |-> FALSE ])
        after(r) ==
            IF r.err \/ r.outside THEN r
            ELSE IF r.ps.i <= Len(toks) THEN Error
            ELSE IF \E g \in r.ps.refs : g > r.ps.ng THEN Error
            ELSE IF r.ps.f.ga /\ r.ps.f.gu THEN Error
            ELSE IF sre_reads_marks(r.n) /\ sre_beyond(r.n, r.ps.closed)
            THEN Outside
            ELSE r
    IN  IF toks # <<>> /\ toks[Len(toks)] = <<>> THEN Error
        ELSE after(parse_sub(toks, ps, FALSE))

\* the search is followed for 2^MaxSteps steps
MaxSteps == 30

\* match.search(text), line 245, step by step for the compiled pattern
\* match: the first match from the leftmost position that has one.  The
\* positions tried are those that leave room for the least width of the
\* pattern, and one more.
sre_search(match, text) ==
    LET none == SreOver("none", sre_fresh(1, match.ps.ng), <<>>)
        ended(end) == CASE end.mode \in { "done", "none" } -> end
        from(lo) ==
            IF lo = Over \/ code_bit31(lo[2]) \/ lo[2] > Len(text) THEN none
            ELSE ended(sre_steps(
                     SreGo(<< SreNode(match.n, FALSE) >>,
                           sre_fresh(1, match.ps.ng),
                           << SreSearch(match.n, 1,
                                        IF lo[2] <= 1 THEN Len(text) + 1
                                        ELSE Len(text) - (lo[2] - 1) + 1) >>),
                     text, MaxSteps))
    IN  from(getwidth(match.n, match.ps.closed)[1])

\* the match r has a group that ends before it starts, for which
\* pattern.search raises SystemError
sre_wrong_span(r) ==
    /\ r.mode = "done"
    /\ \E id \in 1..(Len(r.s.m) \div 2) :
          /\ r.s.lm >= 2 * id
          /\ r.s.m[2 * id - 1] # 0
          /\ r.s.m[2 * id] # 0
          /\ r.s.m[2 * id - 1] > r.s.m[2 * id]

\* match.search(text) for the compiled pattern match: whether it finds a
\* match, or raises
Found(found) == [ raised |-> FALSE, found |-> found ]
SearchRaised == [ raised |-> TRUE, found |-> FALSE ]

search(match, text) ==
    LET told(r) == IF sre_wrong_span(r) THEN SearchRaised
                      ELSE Found(r.mode = "done")
    IN  IF ~sre_reads_marks(match.n) THEN Found(re_search(match.n, text))
        ELSE told(sre_search(match, text))

(***************************************************************************)
(* apply_whitelist_or_blacklist, lines 239-248.                            *)
(***************************************************************************)
\* the call returns the list value, or raises the re.error of re.compile
\* or the SystemError of match.search, which nothing in the program catches
Returned(value) == [ raised |-> FALSE, value |-> value ]
Raised == [ raised |-> TRUE, value |-> <<>> ]

\* the for loop of lines 244-247 on the packages that remain: the list
\* filtered, or the exception of match.search
RECURSIVE awb_loop(_, _, _, _)
awb_loop(pkgs, match, is_whitelist, acc) ==
    IF pkgs = <<>> THEN Returned(acc)
    ELSE LET pkg == Head(pkgs)
             found == search(match, pkg.name)
         IN  IF found.raised THEN Raised
             ELSE IF is_whitelist = found.found
             THEN awb_loop(Tail(pkgs), match, is_whitelist, Append(acc, pkg))
             ELSE awb_loop(Tail(pkgs), match, is_whitelist, acc)

\* a filter that keeps the matches whatever is_whitelist
apply_always_whitelist(pkgs, pat, is_whitelist) ==
    LET loop(match) == IF match.err THEN Raised
                       ELSE awb_loop(pkgs, match, TRUE, <<>>)
    IN  IF pat = <<>> THEN Returned(pkgs)
        ELSE loop(re_compile(pat))

\* lines 240 and 243-248, for the patterns re_compile is defined on
apply_whitelist_or_blacklist(pkgs, pat, is_whitelist) ==
    LET loop(match) ==
            IF match.err THEN Raised
            ELSE awb_loop(pkgs, match, is_whitelist, <<>>)
    IN  IF pat = <<>> THEN Returned(pkgs)
        ELSE loop(re_compile(pat))

\* the patterns the filter is explored on: the empty one, regular
\* expressions, among them one with a search that raises, and strings
\* re.compile rejects
Patterns ==
    { <<>>,
      <<"^","b","a","r","$">>,
      <<"f","o","o">>,
      <<"F","O","O">>,
      <<"^","f">>,
      <<"r","$">>,
      <<"o",".","-">>,
      <<"x">>,
      <<"^">>,
      <<"o","+">>,
      <<"b","|","f">>,
      <<"[","a","-","c","]">>,
      <<"\\","d">>,
      <<"o","{","2","}","$">>,
      <<"(","?","i",")","^","F","O","O">>,
      <<"(","o",")","\\","1">>,
      <<"b","(","?","!","a",")">>,
      <<"(","?","<","=","-",")","b">>,
      <<"^","[","^","f","]">>,
      <<"(","?","-","i",":","F",")">>,
      <<"(">>,
      <<"*">>,
      <<"[">>,
      <<"a","{","2",",","1","}">>,
      <<"\\">>,
      <<"(","?","<","!","o","{","6","5","5","3","6","}",")","b">>,
      <<"o","{","1","0","0","0","0","0","0","0","0","1","}">>,
      <<"(","?","<","=","o","{","2","1","4","7","4","8","3","6","4","8","}",")","b">>,
      <<"(","?","<","!","o","{","2","1","4","7","4","8","3","6","4","8","}",")","b">>,
      <<"(","?","<","!","o","{","4","2","9","4","9","6","7","2","9","4","}","o","o",")","b">>,
      <<"o","{","2",",","4","2","9","4","9","6","7","2","9","4","}">>,
      <<"(","?",":","o","?",")","{","6","5","5","3","6","}">>,
      <<"(","?",":","(","b",")","|","a",")","+","+","\\","1","r">>,
      <<"(","?",":","(","f",")","|","o",")","+","+">> }

FltIdle ==
    /\ outdated = <<>>
    /\ pattern = <<>>
    /\ filtered = [ w \in BOOLEAN |-> <<>> ]
    /\ flt_done = {}
    /\ flt_raised = {}

FltInit ==
    /\ outdated \in SeqsUpTo(PackageUniverse, MaxPkgs)
    /\ pattern \in Patterns
    /\ filtered = [ w \in BOOLEAN |-> <<>> ]
    /\ flt_done = {}
    /\ flt_raised = {}

\* one call apply_whitelist_or_blacklist(outdated, pattern, is_whitelist),
\* which returns a list or raises
ApplyFilter(is_whitelist) ==
    /\ is_whitelist \notin flt_done \cup flt_raised
    /\ LET called(r) ==
               IF r.raised
               THEN /\ flt_raised' = flt_raised \cup { is_whitelist }
                    /\ UNCHANGED <<filtered, flt_done>>
               ELSE /\ filtered' = [ filtered EXCEPT ![is_whitelist] = r.value ]
                    /\ flt_done' = flt_done \cup { is_whitelist }
                    /\ UNCHANGED flt_raised
       IN  called(apply_whitelist_or_blacklist(outdated, pattern, is_whitelist))
    /\ UNCHANGED <<outdated, pattern>>
    /\ UNCHANGED notFlt

FltNext == \E w \in BOOLEAN : ApplyFilter(w)

(***************************************************************************)
(* Properties of apply_whitelist_or_blacklist.                             *)
(***************************************************************************)
\* the pairs << pattern, name >> of the explored patterns and names for
\* which re.compile(pattern, re.IGNORECASE).search(name) finds a match
SearchFinds ==
    { << <<"^","b","a","r","$">>, <<"b","a","r">> >>,
      << <<"f","o","o">>, <<"f","o","o">> >>,
      << <<"f","o","o">>, <<"F","o","o","-","b","2">> >>,
      << <<"F","O","O">>, <<"f","o","o">> >>,
      << <<"F","O","O">>, <<"F","o","o","-","b","2">> >>,
      << <<"^","f">>, <<"f","o","o">> >>,
      << <<"^","f">>, <<"F","o","o","-","b","2">> >>,
      << <<"r","$">>, <<"b","a","r">> >>,
      << <<"o",".","-">>, <<"F","o","o","-","b","2">> >>,
      << <<"^">>, <<"f","o","o">> >>,
      << <<"^">>, <<"b","a","r">> >>,
      << <<"^">>, <<"F","o","o","-","b","2">> >>,
      << <<"o","+">>, <<"f","o","o">> >>,
      << <<"o","+">>, <<"F","o","o","-","b","2">> >>,
      << <<"b","|","f">>, <<"f","o","o">> >>,
      << <<"b","|","f">>, <<"b","a","r">> >>,
      << <<"b","|","f">>, <<"F","o","o","-","b","2">> >>,
      << <<"[","a","-","c","]">>, <<"b","a","r">> >>,
      << <<"[","a","-","c","]">>, <<"F","o","o","-","b","2">> >>,
      << <<"\\","d">>, <<"F","o","o","-","b","2">> >>,
      << <<"o","{","2","}","$">>, <<"f","o","o">> >>,
      << <<"(","?","i",")","^","F","O","O">>, <<"f","o","o">> >>,
      << <<"(","?","i",")","^","F","O","O">>, <<"F","o","o","-","b","2">> >>,
      << <<"(","o",")","\\","1">>, <<"f","o","o">> >>,
      << <<"(","o",")","\\","1">>, <<"F","o","o","-","b","2">> >>,
      << <<"b","(","?","!","a",")">>, <<"F","o","o","-","b","2">> >>,
      << <<"(","?","<","=","-",")","b">>, <<"F","o","o","-","b","2">> >>,
      << <<"^","[","^","f","]">>, <<"b","a","r">> >>,
      << <<"(","?","-","i",":","F",")">>, <<"F","o","o","-","b","2">> >>,
      << <<"(","?","<","!","o","{","6","5","5","3","6","}",")","b">>, <<"b","a","r">> >>,
      << <<"(","?","<","!","o","{","6","5","5","3","6","}",")","b">>, <<"F","o","o","-","b","2">> >>,
      << <<"(","?","<","!","o","{","2","1","4","7","4","8","3","6","4","8","}",")","b">>, <<"b","a","r">> >>,
      << <<"(","?","<","!","o","{","2","1","4","7","4","8","3","6","4","8","}",")","b">>, <<"F","o","o","-","b","2">> >>,
      << <<"o","{","2",",","4","2","9","4","9","6","7","2","9","4","}">>, <<"f","o","o">> >>,
      << <<"o","{","2",",","4","2","9","4","9","6","7","2","9","4","}">>, <<"F","o","o","-","b","2">> >>,
      << <<"(","?",":","o","?",")","{","6","5","5","3","6","}">>, <<"f","o","o">> >>,
      << <<"(","?",":","o","?",")","{","6","5","5","3","6","}">>, <<"b","a","r">> >>,
      << <<"(","?",":","o","?",")","{","6","5","5","3","6","}">>, <<"F","o","o","-","b","2">> >>,
      << <<"(","?",":","(","b",")","|","a",")","+","+","\\","1","r">>, <<"b","a","r">> >> }

\* the explored patterns for which re.compile(pattern, re.IGNORECASE)
\* raises re.error
NotCompiled ==
    { <<"(">>,
      <<"*">>,
      <<"[">>,
      <<"a","{","2",",","1","}">>,
      <<"\\">>,
      <<"(","?","<","!","o","{","4","2","9","4","9","6","7","2","9","4","}","o","o",")","b">> }

\* the pairs << pattern, name >> of the explored patterns and names for
\* which re.compile(pattern, re.IGNORECASE).search(name) raises
\* SystemError
SearchRaises ==
    { << <<"(","?",":","(","f",")","|","o",")","+","+">>, <<"f","o","o">> >>,
      << <<"(","?",":","(","f",")","|","o",")","+","+">>, <<"F","o","o","-","b","2">> >> }

NameMatches(pkg) == << pattern, pkg.name >> \in SearchFinds

\* a pattern with a repeat kept one package as whitelist and another one
\* as blacklist
C9_Witness ==
    /\ flt_done = BOOLEAN
    /\ pattern = <<"o","+">>
    /\ filtered[TRUE] # <<>>
    /\ filtered[FALSE] # <<>>

(***************************************************************************)
(* parse_legacy, lines 207-220, and the patterns of lines 30-35.           *)
(***************************************************************************)
Digits == { "0","1","2","3","4","5","6","7","8","9" }
\* what [a-z] with re.IGNORECASE holds: of the characters up to U+00FF it
\* matches the ASCII letters only
Letters == { "a","b","c","d","e","f","g","h","i","j","k","l","m",
             "n","o","p","q","r","s","t","u","v","w","x","y","z" }

\* NAME_PATTERN, line 35: [a-z0-9_-]+ with re.IGNORECASE
NAME_PATTERN == Plus(Chr(Letters \cup Digits \cup { "_", "-" }))

\* [-_\.]?
VSep == Opt(Chr({ "-", "_", "." }))
\* [0-9]+
VNum == Plus(Chr(Digits))

\* the releases of packaging the model knows: the repository requires none
\* in particular.  21.3 stands for those before 22.0; 24.2 for those from
\* 22.0 on, which spell the pre-release names in another order; 26.2 for
\* those whose pattern has possessive quantifiers (on Python 3.11.5 and
\* later)
PackagingVersions == { "21.3", "24.2", "26.2" }

\* n?+ or n*+ where packaging 26.2 writes the quantifier of n possessive
Poss(pk, n) == IF pk = "26.2" THEN Atomic(n) ELSE n

\* (a|b|c|rc|alpha|beta|pre|preview), packaging 21.3
PreNames21 ==
    AltOf(<< Lit(<<"a">>), Lit(<<"b">>), Lit(<<"c">>), Lit(<<"r","c">>),
             Lit(<<"a","l","p","h","a">>), Lit(<<"b","e","t","a">>),
             Lit(<<"p","r","e">>), Lit(<<"p","r","e","v","i","e","w">>) >>)

\* alpha|a|beta|b|preview|pre|c|rc, packaging 24.2
PreNames24 ==
    AltOf(<< Lit(<<"a","l","p","h","a">>), Lit(<<"a">>),
             Lit(<<"b","e","t","a">>), Lit(<<"b">>),
             Lit(<<"p","r","e","v","i","e","w">>), Lit(<<"p","r","e">>),
             Lit(<<"c">>), Lit(<<"r","c">>) >>)

\* VERSION_PATTERN, lines 30-33: packaging.version.VERSION_PATTERN of the
\* release pk of packaging, compiled with re.VERBOSE | re.IGNORECASE
VERSION_PATTERN(pk) ==
    LET PSep == Poss(pk, VSep)
    IN
    Cat(<< Poss(pk, Opt(Chr({ "v" }))),
           \* epoch: (?:[0-9]+!)?
           Poss(pk, Opt(Seq2(VNum, Chr({ "!" })))),
           \* release: [0-9]+(?:\.[0-9]+)*
           VNum, Poss(pk, Star(Seq2(Chr({ "." }), VNum))),
           \* pre: ([-_\.]?(pre_l)[-_\.]?([0-9]+)?)?
           Poss(pk, Opt(Cat(<< PSep,
                               IF pk = "21.3" THEN PreNames21 ELSE PreNames24,
                               PSep, Opt(VNum) >>))),
           \* post: (-[0-9]+ | [-_\.]?(post|rev|r)[-_\.]?([0-9]+)?)?
           Poss(pk, Opt(Alt2(Seq2(Chr({ "-" }), VNum),
                             Cat(<< VSep,
                                    AltOf(<< Lit(<<"p","o","s","t">>),
                                             Lit(<<"r","e","v">>),
                                             Lit(<<"r">>) >>),
                                    VSep, Opt(VNum) >>)))),
           \* dev: ([-_\.]?dev[-_\.]?([0-9]+)?)?
           Poss(pk, Opt(Cat(<< PSep, Lit(<<"d","e","v">>), PSep,
                               Opt(VNum) >>))),
           \* local: (?:\+[a-z0-9]+(?:[-_\.][a-z0-9]+)*)?
           Poss(pk, Opt(Cat(<< Chr({ "+" }),
                               Plus(Chr(Letters \cup Digits)),
                               Poss(pk, Star(Seq2(Chr({ "-", "_", "." }),
                                                  Plus(Chr(Letters \cup Digits))))) >>))) >>)

\* the characters that end a line for str.splitlines(), "\r" apart: \n,
\* \f, U+000B, U+001C, U+001D, U+001E and U+0085 (and, above U+00FF, which
\* no string of the model holds, U+2028 and U+2029)
LineEnds ==
    { "\n", "\f", "", "", "", "", "" }

\* str.splitlines(), line 209.  A line ends at a character of LineEnds or
\* at "\r", the pair "\r\n" ending it once; what follows the last line end
\* is a line if it is not empty.
splitlines(text) ==
    LET n == Len(text)
        IsEnd(i) ==
            \/ text[i] \in LineEnds
            \/ text[i] = "\r" /\ ~(i < n /\ text[i + 1] = "\n")
        E == { i \in 1..n : IsEnd(i) }
        \* the position of the k-th line end, 0 for k = 0
        EndAt(k) ==
            IF k = 0 THEN 0
            ELSE CHOOSE i \in E : Cardinality({ j \in E : j <= i }) = k
        First(k) == EndAt(k - 1) + 1
        \* the last character of the k-th line
        Last(k) ==
            LET e == EndAt(k)
            IN  IF text[e] = "\n" /\ e > First(k) /\ text[e - 1] = "\r"
                THEN e - 2 ELSE e - 1
        m == Cardinality(E)
        whole == [ k \in 1..m |-> SubSeq(text, First(k), Last(k)) ]
    IN  IF EndAt(m) < n
        THEN Append(whole, SubSeq(text, EndAt(m) + 1, n))
        ELSE whole

\* line 210: name_match is not None
has_name_match(line) == re_match(NAME_PATTERN, line)

\* lines 211-213
version_matches(pk, line) == re_finditer(VERSION_PATTERN(pk), line, 1)

\* the for loop of lines 209-219 on the lines that remain
RECURSIVE pl_loop(_, _, _)
pl_loop(pk, lines, pkgs) ==
    IF lines = <<>> THEN pkgs
    ELSE LET line == Head(lines)
             vm == version_matches(pk, line)
         IN  IF has_name_match(line) /\ Len(vm) = 2
             THEN pl_loop(pk, Tail(lines),
                          Append(pkgs, [ name |-> re_match_group(NAME_PATTERN, line),
                                         version |-> vm[1],
                                         latest_version |-> vm[2] ]))
             ELSE pl_loop(pk, Tail(lines), pkgs)

\* a loop that takes a line with two or more version matches
RECURSIVE pl_loop_at_least_two(_, _, _)
pl_loop_at_least_two(pk, lines, pkgs) ==
    IF lines = <<>> THEN pkgs
    ELSE LET line == Head(lines)
             vm == version_matches(pk, line)
         IN  IF has_name_match(line) /\ Len(vm) >= 2
             THEN pl_loop_at_least_two(pk, Tail(lines),
                          Append(pkgs, [ name |-> re_match_group(NAME_PATTERN, line),
                                         version |-> vm[1],
                                         latest_version |-> vm[2] ]))
             ELSE pl_loop_at_least_two(pk, Tail(lines), pkgs)

parse_legacy_at_least_two(pk, output) ==
    pl_loop_at_least_two(pk, splitlines(output), <<>>)

\* parse_legacy(pip_output) where the release pk of packaging is installed
parse_legacy(pk, output) == pl_loop(pk, splitlines(output), <<>>)

\* the lines pip list --outdated may print, each with the match of
\* NAME_PATTERN at its start (None if there is none) and the matches of
\* VERSION_PATTERN in it for each release of packaging, as the module re
\* finds them
Each(vs) == [ pk \in PackagingVersions |-> vs ]

LegacyLines ==
    { \* 'foo (1.0) - Latest: 2.0 [wheel]'
      [ line |-> <<"f","o","o"," ","(","1",".","0",")"," ","-"," ","L","a","t","e",
                  "s","t",":"," ","2",".","0"," ","[","w","h","e","e","l","]">>,
        name |-> <<"f","o","o">>,
        versions |-> Each(<<<<"1",".","0">>, <<"2",".","0">>>>) ],
      \* 'bar (Current: 0.1 Latest: 0.2 [sdist])'
      [ line |-> <<"b","a","r"," ","(","C","u","r","r","e","n","t",":"," ","0",".",
                  "1"," ","L","a","t","e","s","t",":"," ","0",".","2"," ","[","s",
                  "d","i","s","t","]",")">>,
        name |-> <<"b","a","r">>,
        versions |-> Each(<<<<"0",".","1">>, <<"0",".","2">>>>) ],
      \* 'Foo-b2 (2) - Latest: 2.0rc1 [wheel]'
      [ line |-> <<"F","o","o","-","b","2"," ","(","2",")"," ","-"," ","L","a","t",
                  "e","s","t",":"," ","2",".","0","r","c","1"," ","[","w","h","e",
                  "e","l","]">>,
        name |-> <<"F","o","o","-","b","2">>,
        versions |-> Each(<<<<"2">>, <<"2">>, <<"2",".","0","r","c","1">>>>) ],
      \* ''
      [ line |-> <<>>,
        name |-> None,
        versions |-> Each(<<>>) ],
      \* 'Could not find any downloads'
      [ line |-> <<"C","o","u","l","d"," ","n","o","t"," ","f","i","n","d"," ","a",
                  "n","y"," ","d","o","w","n","l","o","a","d","s">>,
        name |-> <<"C","o","u","l","d">>,
        versions |-> Each(<<>>) ],
      \* 'pkg 1.0'
      [ line |-> <<"p","k","g"," ","1",".","0">>,
        name |-> <<"p","k","g">>,
        versions |-> Each(<<<<"1",".","0">>>>) ],
      \* '(1.0) 2.0'
      [ line |-> <<"(","1",".","0",")"," ","2",".","0">>,
        name |-> None,
        versions |-> Each(<<<<"1",".","0">>, <<"2",".","0">>>>) ],
      \* '1.0 2.0'
      [ line |-> <<"1",".","0"," ","2",".","0">>,
        name |-> <<"1">>,
        versions |-> Each(<<<<"1",".","0">>, <<"2",".","0">>>>) ],
      \* 'q 1.0alpha1 2'
      [ line |-> <<"q"," ","1",".","0","a","l","p","h","a","1"," ","2">>,
        name |-> <<"q">>,
        versions |-> [ pk \in PackagingVersions |->
                         IF pk = "21.3"
                         THEN <<<<"1",".","0","a">>, <<"1">>, <<"2">>>>
                         ELSE <<<<"1",".","0","a","l","p","h","a","1">>, <<"2">>>> ] ],
      \* 'w 1!x 2 3'
      [ line |-> <<"w"," ","1","!","x"," ","2"," ","3">>,
        name |-> <<"w">>,
        versions |-> [ pk \in PackagingVersions |->
                         IF pk = "26.2"
                         THEN <<<<"2">>, <<"3">>>>
                         ELSE <<<<"1">>, <<"2">>, <<"3">>>> ] ] }

\* the lines ls, a newline between each two
RECURSIVE join_lines(_)
join_lines(ls) ==
    IF ls = <<>> THEN <<>>
    ELSE IF Len(ls) = 1 THEN ls[1].line
    ELSE ls[1].line \o <<"\n">> \o join_lines(Tail(ls))

LegIdle ==
    /\ legacy_lines = <<>>
    /\ pip_output = <<>>
    /\ legacy_packages = <<>>
    /\ leg_pc = "idle"
    /\ packaging = "21.3"

LegInit ==
    /\ legacy_lines \in SeqsUpTo(LegacyLines, MaxLines)
    /\ pip_output = join_lines(legacy_lines)
    /\ legacy_packages = <<>>
    /\ leg_pc = "call"
    /\ packaging \in PackagingVersions

\* one call parse_legacy(pip_output)
ParseLegacy ==
    /\ leg_pc = "call"
    /\ legacy_packages' = parse_legacy(packaging, pip_output)
    /\ leg_pc' = "done"
    /\ UNCHANGED <<legacy_lines, pip_output, packaging>>
    /\ UNCHANGED notLeg

LegNext == ParseLegacy

(***************************************************************************)
(* Properties of parse_legacy.                                             *)
(***************************************************************************)
\* the records of the lines ls that have a name match and exactly two
\* version matches
RECURSIVE RecordsOf(_)
RecordsOf(ls) ==
    IF ls = <<>> THEN <<>>
    ELSE LET l == Head(ls)
             vs == l.versions[packaging]
         IN  IF l.name # None /\ Len(vs) = 2
             THEN << [ name |-> l.name, version |-> vs[1],
                       latest_version |-> vs[2] ] >> \o RecordsOf(Tail(ls))
             ELSE RecordsOf(Tail(ls))

\* C10: parse_legacy yields a record for a line exactly when the line has
\* a name match at its start and exactly two version matches, with version
\* the first and latest_version the second match; every other line is
\* skipped; the records are in line order.
C10_RecordIffNameAndTwoVersions ==
    leg_pc = "done" => legacy_packages = RecordsOf(legacy_lines)

\* a line with three version matches was skipped and a line with two taken
C10_Witness ==
    /\ leg_pc = "done"
    /\ Len(legacy_lines) >= 2
    /\ Len(legacy_lines[1].versions[packaging]) = 3
    /\ legacy_lines[1].name # None
    /\ Len(legacy_packages) = 1

(***************************************************************************)
(* main and the top level, lines 223-236 and 251-289.                      *)
(***************************************************************************)
\* the exit status of sys.exit(0), line 289
AbortStatus == 0

\* the exit status of SystemExit with a message, line 258, and of an
\* exception nobody catches
ErrorStatus == 1

(***************************************************************************)
(* packaging.version.Version and its order, lines 225-228.  A version is   *)
(* a record of what version.parse reads: the epoch, the release numbers,   *)
(* the pre-release << letter, number >>, the post-release << number >> and *)
(* the development release << number >>, each << >> if absent.  The        *)
(* versions of pip have no local part.                                     *)
(***************************************************************************)
Version(release, pre, post, dev) ==
    [ epoch |-> 0, release |-> release, pre |-> pre, post |-> post, dev |-> dev ]

\* a final release
Final(release) == Version(release, <<>>, <<>>, <<>>)

\* the release numbers without the zeros at their end
RECURSIVE strip_zeros(_)
strip_zeros(r) ==
    IF r # <<>> /\ r[Len(r)] = 0 THEN strip_zeros(SubSeq(r, 1, Len(r) - 1)) ELSE r

\* the order of Python on tuples of integers
tuple_lt(a, b) ==
    \/ \E i \in 1..Len(a) :
          /\ i <= Len(b)
          /\ a[i] < b[i]
          /\ \A j \in 1..(i - 1) : a[j] = b[j]
    \/ Len(a) < Len(b) /\ \A j \in 1..Len(a) : a[j] = b[j]

\* the order of the pre-release letters: "a" < "b" < "rc" as strings
pre_rank(letter) ==
    CASE letter = "a" -> 1 [] letter = "b" -> 2 [] letter = "rc" -> 3

\* _cmpkey: the parts of the key by which versions are ordered, as tuples
\* of integers.  A development release without pre- and post-release
\* sorts before every pre-release, a version without pre-release after
\* them; no post-release sorts first, no development release last.
cmpkey(v) ==
    << << v.epoch >>,
       strip_zeros(v.release),
       IF v.pre = <<>> /\ v.post = <<>> /\ v.dev # <<>> THEN << 0, 0 >>
       ELSE IF v.pre = <<>> THEN << 4, 0 >>
       ELSE << pre_rank(v.pre[1]), v.pre[2] >>,
       IF v.post = <<>> THEN << 0, 0 >> ELSE << 1, v.post[1] >>,
       IF v.dev = <<>> THEN << 1, 0 >> ELSE << 0, v.dev[1] >> >>

\* a < b for versions
version_lt(a, b) ==
    LET ka == cmpkey(a)
        kb == cmpkey(b)
    IN  \E i \in 1..Len(ka) :
            /\ tuple_lt(ka[i], kb[i])
            /\ \A j \in 1..(i - 1) : ka[j] = kb[j]

\* a >= b, line 226
version_ge(a, b) == ~version_lt(a, b)

\* a > b, line 228
version_gt(a, b) == version_lt(b, a)

\* the command of get_outdated_packages, lines 224-229
list_command(forwarded_args, v) ==
    pip_cmd
      \o << <<"l","i","s","t">>, <<"-","-","o","u","t","d","a","t","e","d">> >>
      \o forwarded_args
      \o (IF version_ge(v, Final(<<6, 0>>))
          THEN << <<"-","-","d","i","s","a","b","l","e","-","p","i","p","-",
                    "v","e","r","s","i","o","n","-","c","h","e","c","k">> >>
          ELSE <<>>)
      \o (IF version_gt(v, Final(<<9, 0>>))
          THEN << <<"-","-","f","o","r","m","a","t","=","j","s","o","n">> >>
          ELSE <<>>)

\* line 228: pip_version > version.parse('9.0')
uses_json(v) == version_gt(v, Final(<<9, 0>>))

\* a test of the wrong pair of options
flags_conflict_raw_auto(a) == a.raw /\ a.auto

\* line 257
flags_conflict(a) == a.raw /\ a.interactive

\* a choice that takes continue_on_fail for auto
main_branch_auto_on_continue(a, out) ==
    IF out = <<>> /\ ~a.raw THEN "uptodate"
    ELSE IF a.auto \/ a.continue_on_fail THEN "auto"
    ELSE IF a.raw THEN "raw"
    ELSE "review"

\* the branch main takes, lines 263-270
main_branch(a, out) ==
    IF out = <<>> /\ ~a.raw THEN "uptodate"
    ELSE IF a.auto THEN "auto"
    ELSE IF a.raw THEN "raw"
    ELSE "review"

\* a top level without the except clause
interrupt_unhandled == [ outcome |-> "error", exit_status |-> ErrorStatus ]

\* lines 287-289: how a KeyboardInterrupt ends the run
interrupt_exit == [ outcome |-> "aborted", exit_status |-> AbortStatus ]

\* a test that takes 'y' alone
answer_selects_yes_only(a) == a = <<"y">>

\* line 278
answer_selects(a) == a \in { <<"y">>, <<"a">> }

\* the installed pip and packaging the run is explored with: pip 1.5,
\* 6.0rc1, 6.0, 9.0, 9.0.1 and 23.2
Environments ==
    { [ pip |-> Final(<<1, 5>>), packaging |-> "21.3" ],
      [ pip |-> Version(<<6, 0>>, <<"rc", 1>>, <<>>, <<>>), packaging |-> "24.2" ],
      [ pip |-> Final(<<6, 0>>), packaging |-> "26.2" ],
      [ pip |-> Final(<<9, 0>>), packaging |-> "21.3" ],
      [ pip |-> Final(<<9, 0, 1>>), packaging |-> "24.2" ],
      [ pip |-> Final(<<23, 2>>), packaging |-> "26.2" ] }

\* the pairs of --whitelist and --blacklist the run is explored with
FilterOptions ==
    { [ whitelist |-> <<>>, blacklist |-> <<"^","b","a","r","$">> ],
      [ whitelist |-> <<"f","o","o">>, blacklist |-> <<>> ],
      [ whitelist |-> <<"o","+">>, blacklist |-> <<"[">> ],
      [ whitelist |-> <<"(">>, blacklist |-> <<>> ] }

\* the unrecognised tokens the run is explored with
MainForwarded ==
    { <<>>, << <<"-","-","u","s","e","r">>, <<"-","l">>, <<"-","U">> >> }

\* what pip list --outdated may print before pip 9.0.1
LegacyOutputs ==
    { join_lines(ls) \o <<"\n">> : ls \in SeqsUpTo(LegacyLines, 1) }

Options ==
    { [ raw |-> r, interactive |-> i, auto |-> a, continue_on_fail |-> c,
        freeze_outdated_packages |-> f,
        whitelist |-> o.whitelist, blacklist |-> o.blacklist ] :
        r \in BOOLEAN, i \in BOOLEAN, a \in BOOLEAN, c \in BOOLEAN,
        f \in BOOLEAN, o \in FilterOptions }

MainIdle ==
    /\ cli_args = [ raw |-> FALSE, interactive |-> FALSE, auto |-> FALSE,
                continue_on_fail |-> FALSE, freeze_outdated_packages |-> FALSE,
                whitelist |-> <<>>, blacklist |-> <<>> ]
    /\ pip_version = Final(<<23, 2>>)
    /\ pc = "idle"
    /\ outcome = "running"
    /\ exit_status = -1
    /\ interrupted = FALSE
    /\ interrupted_cmd = <<>>
    /\ list_invocations = <<>>
    /\ selected = <<>>
    /\ idx = 0
    /\ answers = <<>>

\* the process starts: parse_args has returned args and forwarded, line 252
MainInit ==
    /\ cli_args \in Options
    /\ \E e \in Environments :
          pip_version = e.pip /\ packaging = e.packaging
    /\ pc = "start"
    /\ outcome = "running"
    /\ exit_status = -1
    /\ interrupted = FALSE
    /\ interrupted_cmd = <<>>
    /\ list_invocations = <<>>
    /\ selected = <<>>
    /\ idx = 0
    /\ answers = <<>>
    /\ forwarded \in MainForwarded
    /\ exclude = {}
    /\ result = <<>>
    /\ refiltered = <<>>
    /\ ff_pc = "idle"
    /\ list_args = <<>>
    /\ install_args = <<>>
    /\ fw_pc = "call"
    /\ AskInit
    /\ ConfIdle
    /\ packages = <<>>
    /\ up_forwarded = <<>>
    /\ continue_on_fail = FALSE
    /\ freeze_outdated_packages = FALSE
    /\ upgrade_cmd = <<>>
    /\ requirements \in OldFiles
    /\ f_buf = None
    /\ invocations = <<>>
    /\ up_pc = "idle"
    /\ up_i = 0
    /\ FltIdle
    /\ legacy_lines = <<>>
    /\ pip_output = <<>>
    /\ legacy_packages = <<>>
    /\ leg_pc = "idle"

\* the run ends with the outcome o and the exit status s
Exit(o, s) ==
    /\ pc' = "exit"
    /\ outcome' = o
    /\ exit_status' = s

\* update_packages(pkgs, install_args, cli_args.continue_on_fail,
\* cli_args.freeze_outdated_packages) is called, lines 266 and 281
CallUpdate(pkgs) ==
    /\ packages' = pkgs
    /\ up_forwarded' = install_args
    /\ continue_on_fail' = cli_args.continue_on_fail
    /\ freeze_outdated_packages' = cli_args.freeze_outdated_packages
    /\ up_pc' = "start"
    /\ pc' = "updating"
    /\ UNCHANGED <<upgrade_cmd, requirements, f_buf, invocations, up_i>>

\* lines 253-254
MainForward == pc = "start" /\ (ForwardList \/ ForwardInstall)

\* update_packages runs, lines 180-196
MainUpdate == pc = "updating" /\ UpNext

\* lines 255-258
MainCheckFlags ==
    /\ pc = "start"
    /\ fw_pc = "done"
    /\ IF flags_conflict(cli_args)
       THEN Exit("fatal", ErrorStatus)
       ELSE pc' = "list" /\ UNCHANGED <<outcome, exit_status>>
    /\ UNCHANGED <<cli_args, pip_version, interrupted, interrupted_cmd, list_invocations,
                   selected, idx, answers>>
    /\ UNCHANGED <<ffVars, askVars, confVars, upVars, fltVars, legVars>>

\* the exit code of the pip list process, line 18
list_retcode == list_invocations[Len(list_invocations)].retcode

\* lines 260, 229/234, 16-18: pip list runs and exits with rc
MainListRun(rc) ==
    /\ pc = "list"
    /\ list_invocations' =
           Append(list_invocations,
                  [ cmd |-> list_command(list_args, pip_version), retcode |-> rc ])
    /\ pc' = "listed"
    /\ UNCHANGED <<cli_args, pip_version, outcome, exit_status, interrupted,
                   interrupted_cmd, selected, idx, answers>>
    /\ UNCHANGED <<ffVars, askVars, confVars, upVars, fltVars, legVars>>

\* a listing that goes on with what pip printed although pip failed
MainListIgnoresFailure ==
    /\ pc = "listed"
    /\ list_retcode # 0
    /\ \E p \in PackageUniverse : outdated' = << p >>
    /\ pc' = "filter"
    /\ UNCHANGED <<cli_args, pip_version, outcome, exit_status, interrupted,
                   interrupted_cmd, list_invocations, selected, idx, answers>>
    /\ UNCHANGED <<pattern, filtered, flt_done, flt_raised>>
    /\ UNCHANGED <<ffVars, askVars, confVars, upVars, legVars>>

\* lines 19-22: pip list has exited with a code that is not 0, check_output
\* raises CalledProcessError and nobody catches it
MainListFails ==
    /\ pc = "listed"
    /\ list_retcode # 0
    /\ Exit("error", ErrorStatus)
    /\ UNCHANGED <<cli_args, pip_version, interrupted, interrupted_cmd,
                   list_invocations, selected, idx, answers>>
    /\ UNCHANGED <<ffVars, askVars, confVars, upVars, fltVars, legVars>>

\* lines 229-232: pip list has printed the records pkgs as JSON
MainListJson(pkgs) ==
    /\ pc = "listed"
    /\ list_retcode = 0
    /\ uses_json(pip_version)
    /\ outdated' = pkgs
    /\ pc' = "filter"
    /\ UNCHANGED <<cli_args, pip_version, outcome, exit_status, interrupted,
                   interrupted_cmd, list_invocations, selected, idx, answers>>
    /\ UNCHANGED <<pattern, filtered, flt_done, flt_raised>>
    /\ UNCHANGED <<ffVars, askVars, confVars, upVars, legVars>>

\* line 231: pip list has printed what json.loads rejects
MainListMalformed ==
    /\ pc = "listed"
    /\ list_retcode = 0
    /\ uses_json(pip_version)
    /\ Exit("error", ErrorStatus)
    /\ UNCHANGED <<cli_args, pip_version, interrupted, interrupted_cmd,
                   list_invocations, selected, idx, answers>>
    /\ UNCHANGED <<ffVars, askVars, confVars, upVars, fltVars, legVars>>

\* lines 234-236: pip list has printed the text out
MainListLegacy(out) ==
    /\ pc = "listed"
    /\ list_retcode = 0
    /\ ~uses_json(pip_version)
    /\ pip_output' = strip(out)
    /\ outdated' = parse_legacy(packaging, strip(out))
    /\ pc' = "filter"
    /\ UNCHANGED <<cli_args, pip_version, outcome, exit_status, interrupted,
                   interrupted_cmd, list_invocations, selected, idx, answers>>
    /\ UNCHANGED <<pattern, filtered, flt_done, flt_raised>>
    /\ UNCHANGED <<legacy_lines, legacy_packages, leg_pc, packaging>>
    /\ UNCHANGED <<ffVars, askVars, confVars, upVars>>

\* lines 261 and 262: apply_whitelist_or_blacklist with the pattern pat has
\* returned or raised; re.error is not caught, the run ends with a
\* traceback and the status 1
Filtered(r, next) ==
    /\ IF r.raised
       THEN Exit("error", ErrorStatus) /\ UNCHANGED outdated
       ELSE /\ outdated' = r.value
            /\ pc' = next
            /\ UNCHANGED <<outcome, exit_status>>
    /\ UNCHANGED <<cli_args, pip_version, interrupted, interrupted_cmd,
                   list_invocations, selected, idx, answers>>
    /\ UNCHANGED <<pattern, filtered, flt_done, flt_raised>>
    /\ UNCHANGED <<ffVars, askVars, confVars, upVars, legVars>>

\* line 261: the whitelist
MainWhitelist ==
    /\ pc = "filter"
    /\ Filtered(apply_whitelist_or_blacklist(outdated, cli_args.whitelist, TRUE),
                "blacklist")

\* line 262: the blacklist
MainBlacklist ==
    /\ pc = "blacklist"
    /\ Filtered(apply_whitelist_or_blacklist(outdated, cli_args.blacklist, FALSE),
                "branch")

\* lines 263-264 and 267-269: nothing to do, or the raw lines are printed
MainReport ==
    /\ pc = "branch"
    /\ main_branch(cli_args, outdated) \in { "uptodate", "raw" }
    /\ Exit("success", 0)
    /\ UNCHANGED <<cli_args, pip_version, interrupted, interrupted_cmd, list_invocations,
                   selected, idx, answers>>
    /\ UNCHANGED <<ffVars, askVars, confVars, upVars, fltVars, legVars>>

\* lines 265-266
MainAuto ==
    /\ pc = "branch"
    /\ main_branch(cli_args, outdated) = "auto"
    /\ CallUpdate(outdated)
    /\ UNCHANGED <<cli_args, pip_version, outcome, exit_status, interrupted, interrupted_cmd,
                   list_invocations, selected, idx, answers>>
    /\ UNCHANGED <<ffVars, askVars, confVars, fltVars, legVars>>

\* lines 270-272
MainReview ==
    /\ pc = "branch"
    /\ main_branch(cli_args, outdated) = "review"
    /\ selected' = <<>>
    /\ idx' = 1
    /\ pc' = "loop"
    /\ UNCHANGED <<cli_args, pip_version, outcome, exit_status, interrupted, interrupted_cmd,
                   list_invocations, answers>>
    /\ UNCHANGED <<ffVars, askVars, confVars, upVars, fltVars, legVars>>

\* lines 272-276: the package is reported; it is asked about if interactive
MainLoopStep ==
    /\ pc = "loop"
    /\ idx <= Len(outdated)
    /\ IF cli_args.interactive
       THEN pc' = "ask" /\ idx' = idx
       ELSE pc' = "loop" /\ idx' = idx + 1
    /\ UNCHANGED <<cli_args, pip_version, outcome, exit_status, interrupted, interrupted_cmd,
                   list_invocations, selected, answers>>
    /\ UNCHANGED <<ffVars, askVars, confVars, upVars, fltVars, legVars>>

\* line 277: ask_to_install() is called
MainAskCall ==
    /\ pc = "ask"
    /\ ask_pc = "ready"
    /\ (AskCached \/ AskEnter)

\* line 277: ask_to_install() runs
MainAskStep ==
    /\ pc = "ask"
    /\ \/ \E r \in RawInputs : AskRead(r)
       \/ AskStrip
       \/ AskDefault
       \/ AskEOF
       \/ AskCache
       \/ AskReturn

\* line 277: EOFError has left ask_to_install(); neither main nor the top
\* level catches it
MainAskRaised ==
    /\ pc = "ask"
    /\ ask_pc = "raised"
    /\ Exit("error", ErrorStatus)
    /\ UNCHANGED <<cli_args, pip_version, interrupted, interrupted_cmd, list_invocations,
                   selected, idx, answers>>
    /\ UNCHANGED <<ffVars, askVars, confVars, upVars, fltVars, legVars>>

\* lines 277-279: ask_to_install() has returned
MainAnswer ==
    /\ pc = "ask"
    /\ ask_pc = "returned"
    /\ answers' = Append(answers, ask_ret)
    /\ selected' = IF answer_selects(ask_ret)
                   THEN Append(selected, outdated[idx])
                   ELSE selected
    /\ idx' = idx + 1
    /\ pc' = "loop"
    /\ ask_pc' = "ready"
    /\ UNCHANGED <<cached_answer, last_answer, answer, raw, question, ask_ret,
                   calls, prompts>>
    /\ UNCHANGED <<cli_args, pip_version, outcome, exit_status, interrupted, interrupted_cmd,
                   list_invocations>>
    /\ UNCHANGED <<ffVars, confVars, upVars, fltVars, legVars>>

\* lines 280-281, the loop being exhausted
MainLoopEnd ==
    /\ pc = "loop"
    /\ idx > Len(outdated)
    /\ IF selected # <<>>
       THEN CallUpdate(selected) /\ UNCHANGED <<outcome, exit_status>>
       ELSE Exit("success", 0) /\ UNCHANGED upVars
    /\ UNCHANGED <<cli_args, pip_version, interrupted, interrupted_cmd, list_invocations,
                   selected, idx, answers>>
    /\ UNCHANGED <<ffVars, askVars, confVars, fltVars, legVars>>

\* update_packages has returned and main returns
MainReturn ==
    /\ pc = "updating"
    /\ up_pc = "done"
    /\ Exit("success", 0)
    /\ UNCHANGED <<cli_args, pip_version, interrupted, interrupted_cmd, list_invocations,
                   selected, idx, answers>>
    /\ UNCHANGED <<ffVars, askVars, confVars, upVars, fltVars, legVars>>

\* lines 285-289: KeyboardInterrupt while pip list runs, line 17;
\* check_output is left before it reads an exit code
InterruptList ==
    /\ pc = "list"
    /\ interrupted_cmd' = list_command(list_args, pip_version)
    /\ interrupted' = TRUE
    /\ Exit(interrupt_exit.outcome, interrupt_exit.exit_status)
    /\ UNCHANGED <<cli_args, pip_version, list_invocations, selected, idx,
                   answers>>
    /\ UNCHANGED <<ffVars, askVars, confVars, upVars, fltVars, legVars>>

\* lines 285-289: KeyboardInterrupt while input() waits, the question
\* having been written
InterruptPrompt ==
    /\ pc = "ask"
    /\ ask_pc = "loop"
    /\ loop_continues(answer)
    /\ prompts < MaxPrompts
    /\ question' = prompt_of(last_answer)
    /\ prompts' = prompts + 1
    /\ interrupted' = TRUE
    /\ Exit(interrupt_exit.outcome, interrupt_exit.exit_status)
    /\ UNCHANGED <<cached_answer, last_answer, answer, raw, ask_ret, ask_pc,
                   calls>>
    /\ UNCHANGED <<cli_args, pip_version, interrupted_cmd, list_invocations,
                   selected, idx, answers>>
    /\ UNCHANGED <<ffVars, confVars, upVars, fltVars, legVars>>

\* lines 285-289: KeyboardInterrupt at subprocess.call, line 190 or line
\* 195, while pip install runs: the call is left without an exit code
InterruptInstall ==
    /\ pc = "updating"
    /\ up_pc \in { "call_all", "call_one" }
    /\ interrupted_cmd' = upgrade_cmd
    /\ up_pc' = "interrupted"
    /\ interrupted' = TRUE
    /\ Exit(interrupt_exit.outcome, interrupt_exit.exit_status)
    /\ UNCHANGED <<packages, up_forwarded, continue_on_fail,
                   freeze_outdated_packages, upgrade_cmd, requirements,
                   f_buf, invocations, up_i>>
    /\ UNCHANGED <<cli_args, pip_version, list_invocations, selected, idx, answers>>
    /\ UNCHANGED <<ffVars, askVars, confVars, fltVars, legVars>>

\* lines 285-289: KeyboardInterrupt anywhere else in main(), between two of
\* its steps; if the snapshot file is open, the with block of line 184
\* closes it on the way out, which flushes what was written
Interrupt ==
    /\ pc \notin { "idle", "exit" }
    /\ IF f_buf # None
       THEN requirements' = requirements \o f_buf /\ f_buf' = None
       ELSE UNCHANGED <<requirements, f_buf>>
    /\ interrupted' = TRUE
    /\ Exit(interrupt_exit.outcome, interrupt_exit.exit_status)
    /\ UNCHANGED <<packages, up_forwarded, continue_on_fail,
                   freeze_outdated_packages, upgrade_cmd, invocations,
                   up_pc, up_i>>
    /\ UNCHANGED <<cli_args, pip_version, interrupted_cmd, list_invocations,
                   selected, idx, answers>>
    /\ UNCHANGED <<ffVars, askVars, confVars, fltVars, legVars>>

MainNext ==
    \/ MainForward
    \/ MainCheckFlags
    \/ \E rc \in RetCodes : MainListRun(rc)
    \/ MainListFails
    \/ \E pkgs \in SeqsUpTo(PackageUniverse, MaxPkgs) : MainListJson(pkgs)
    \/ MainListMalformed
    \/ \E out \in LegacyOutputs : MainListLegacy(out)
    \/ MainWhitelist
    \/ MainBlacklist
    \/ MainReport
    \/ MainAuto
    \/ MainReview
    \/ MainLoopStep
    \/ MainAskCall
    \/ MainAskStep
    \/ MainAskRaised
    \/ MainAnswer
    \/ MainLoopEnd
    \/ MainUpdate
    \/ MainReturn
    \/ InterruptList
    \/ InterruptPrompt
    \/ InterruptInstall
    \/ Interrupt

(***************************************************************************)
(* Properties of main.                                                     *)
(***************************************************************************)
\* the snapshot file is left alone by the step
NoSnapshotWrite == requirements' = requirements /\ f_buf' = f_buf

\* the text of the snapshot file, with what was written and not yet flushed
SnapshotText == IF f_buf = None THEN requirements ELSE requirements \o f_buf

\* --raw and --interactive are both set
Conflict == cli_args.raw /\ cli_args.interactive

\* with the options in conflict no pip list and no pip install invocation
\* is made, no prompt is shown and update_packages is not called
NothingInvoked ==
    /\ pc \in { "start", "exit" }
    /\ list_invocations = <<>>
    /\ invocations = <<>>
    /\ prompts = 0
    /\ up_pc = "idle"

\* C11, as the specification states it: with --raw and --interactive both
\* set the run ends as a fatal configuration error with a non-zero status,
\* and before that no pip list and no pip install invocation is made, no
\* prompt is shown and the snapshot file is not written.
C11_ConflictIsFatalBeforePip ==
    /\ [](Conflict =>
            /\ NothingInvoked
            /\ pc = "exit" => (outcome = "fatal" /\ exit_status # 0))
    /\ [][ Conflict => NoSnapshotWrite ]_vars

\* C11, amended: with --raw and --interactive both set the run ends as a
\* fatal configuration error with a non-zero status, unless a
\* KeyboardInterrupt comes before line 258 raises, and then it ends as
\* aborted with the status 0; either way no pip list and no pip install
\* invocation is made, no prompt is shown and the snapshot file is not
\* written.
C11_ConflictIsFatalUnlessInterrupted ==
    /\ [](Conflict =>
            /\ NothingInvoked
            /\ pc = "exit" =>
                  IF interrupted
                  THEN outcome = "aborted" /\ exit_status = AbortStatus
                  ELSE outcome = "fatal" /\ exit_status # 0)
    /\ [][ Conflict => NoSnapshotWrite ]_vars

\* the conflict ended a run that also asked for automatic upgrades and a
\* snapshot, an old snapshot file being there
C11_Witness ==
    /\ Conflict
    /\ cli_args.auto /\ cli_args.freeze_outdated_packages
    /\ ~interrupted
    /\ pc = "exit" /\ outcome = "fatal" /\ exit_status = 1
    /\ requirements # None

\* pip list has exited with a code that is not 0
ListingFailed == list_invocations # <<>> /\ list_invocations[1].retcode # 0

\* after a listing that failed no list of packages is filtered or selected
\* from, no prompt is shown, no pip install invocation is made and
\* update_packages is not called
NothingDownstream ==
    /\ pc \in { "listed", "exit" }
    /\ Len(list_invocations) = 1
    /\ outdated = <<>> /\ selected = <<>>
    /\ prompts = 0
    /\ invocations = <<>>
    /\ up_pc = "idle"

\* C12, as the specification states it: once pip list has exited with a
\* non-zero code the run ends as an error: no list of packages is filtered
\* or selected from, no prompt is shown, no pip install invocation is made
\* and the snapshot file is not written.
C12_ListingFailureIsFatal ==
    /\ [](ListingFailed =>
            /\ NothingDownstream
            /\ pc = "exit" => (outcome = "error" /\ exit_status # 0))
    /\ [][ ListingFailed => NoSnapshotWrite ]_vars

\* C12, amended: once pip list has exited with a non-zero code the run ends
\* as an error with a non-zero status, unless a KeyboardInterrupt comes
\* before check_output raises, and then it ends as aborted with the status
\* 0; either way no list of packages is filtered or selected from, no
\* prompt is shown, no pip install invocation is made and the snapshot file
\* is not written.
C12_ListingFailureEndsRun ==
    /\ [](ListingFailed =>
            /\ NothingDownstream
            /\ pc = "exit" =>
                  IF interrupted
                  THEN outcome = "aborted" /\ exit_status = AbortStatus
                  ELSE outcome = "error" /\ exit_status # 0)
    /\ [][ ListingFailed => NoSnapshotWrite ]_vars

\* pip list failed in a run that asked for automatic upgrades and a snapshot
C12_Witness ==
    /\ ListingFailed /\ list_invocations[1].retcode = 1
    /\ cli_args.auto /\ cli_args.freeze_outdated_packages
    /\ ~interrupted
    /\ pc = "exit" /\ outcome = "error"
    /\ requirements # None

\* C13: a KeyboardInterrupt, whether it comes while pip list runs, while
\* input() waits, while pip install runs or anywhere else in main(), ends
\* the run as aborted with exit status 0; the step of the interrupt keeps
\* the text written to the snapshot file and the completed invocations as
\* they are, a snapshot file that is closed is not touched, and after the
\* interrupt no invocation is made or interrupted, no prompt is shown and
\* the file is not written.
C13_InterruptAbortsCleanly ==
    /\ [](interrupted =>
            (pc = "exit" /\ outcome = "aborted" /\ exit_status = 0))
    /\ [][ interrupted' =>
             /\ SnapshotText' = SnapshotText
             /\ f_buf = None => NoSnapshotWrite
             /\ invocations' = invocations
             /\ list_invocations' = list_invocations
             /\ interrupted =>
                    /\ NoSnapshotWrite
                    /\ interrupted_cmd' = interrupted_cmd
                    /\ prompts' = prompts ]_vars

\* the snapshot of two packages was written and the first was upgraded when
\* the interrupt came during the second pip install, whose command ends
\* with the name of the second package
C13_Witness ==
    /\ interrupted /\ outcome = "aborted" /\ exit_status = 0
    /\ freeze_outdated_packages /\ continue_on_fail
    /\ Len(packages) = 2
    /\ IsLinesOf(requirements, PinLines(packages))
    /\ Len(invocations) = 1
    /\ invocations[1].retcode = 0
    /\ interrupted_cmd = upgrade_cmd
    /\ upgrade_cmd =
          pip_cmd \o install_U \o up_forwarded \o << packages[2].name >>

\* C14: once a run with --freeze-outdated-packages has written the snapshot
\* file, the file holds one line name==version for every package of the
\* filtered outdated list, in automatic and in interactive mode.
C14_SnapshotHoldsEveryOutdated ==
    (cli_args.freeze_outdated_packages
        /\ up_pc \in { "install", "call_all", "loop", "call_one", "pop",
                       "done", "interrupted" }) =>
        IsLinesOf(requirements, PinLines(outdated))

\* the index of the first answer 'a' or 'q' in ans, 0 if there is none
FirstSticky(ans) ==
    LET S == { i \in 1..Len(ans) : ans[i] \in { <<"a">>, <<"q">> } }
    IN  IF S = {} THEN 0 ELSE CHOOSE i \in S : \A j \in S : i <= j

\* the indices the answers ans select
Chosen(ans) ==
    LET s == FirstSticky(ans)
    IN  { i \in 1..Len(ans) :
            IF s = 0 \/ i < s THEN ans[i] = <<"y">> ELSE ans[s] = <<"a">> }

\* C15: selected holds, in list order, the packages answered 'y' before the
\* first 'a' or 'q', and from a first 'a' on every package; from a first
\* 'q' on no package is selected; once 'a' or 'q' was answered no prompt is
\* shown, and the loop still runs over every remaining package.
C15_SelectionFollowsAnswers ==
    /\ [](/\ selected = Pick(outdated, Chosen(answers))
          /\ Len(answers) <= Len(outdated)
          /\ pc = "updating" =>
                 (Len(answers) = Len(outdated) \/ cli_args.auto))
    /\ [][ FirstSticky(answers) # 0 => prompts' = prompts ]_vars

\* 'a' was answered at the first of two packages: both are upgraded and
\* one prompt was shown
C15_Witness ==
    /\ pc = "updating" /\ ~cli_args.auto
    /\ Len(outdated) = 2
    /\ answers = << <<"a">>, <<"a">> >>
    /\ prompts = 1
    /\ packages = outdated

\* the snapshot file was opened for writing in this call of update_packages
SnapshotWritten ==
    /\ freeze_outdated_packages
    /\ up_pc \in { "write", "install", "call_all", "loop", "call_one", "pop",
                   "done", "interrupted" }

\* C18: whatever the options and the filtered outdated list, no pip install
\* invocation is made without a package name and the snapshot file is not
\* written for an empty list of packages.
C18_NeverUpgradesNothing ==
    /\ \A i \in 1..Len(invocations) :
           Len(invocations[i].cmd) > Len(pip_cmd \o install_U \o install_args)
    /\ SnapshotWritten => packages # <<>>

\* C19: a pip install invocation is made or the snapshot file is written
\* only if --auto is set, or --interactive is set and some package was
\* answered 'y' or 'a'; with neither option set, neither ever happens.
C19_ChangesOnlyOnRequest ==
    /\ []((invocations # <<>> \/ SnapshotWritten \/ up_pc # "idle") =>
            \/ cli_args.auto
            \/ /\ cli_args.interactive
               /\ \E i \in 1..Len(answers) : answers[i] \in { <<"y">>, <<"a">> })
    /\ [][ (~cli_args.auto /\ ~cli_args.interactive) =>
              (NoSnapshotWrite /\ invocations' = invocations) ]_vars

\* a plain report of two outdated packages ended with nothing installed and
\* the old snapshot file as it was, although a snapshot and
\* continue-on-fail were asked for
C19_Witness ==
    /\ ~cli_args.auto /\ ~cli_args.interactive /\ ~cli_args.raw
    /\ cli_args.freeze_outdated_packages /\ cli_args.continue_on_fail
    /\ Len(outdated) = 2
    /\ pc = "exit" /\ outcome = "success"
    /\ invocations = <<>>
    /\ requirements = <<"o","l","d","=","=","9","\n">>

(***************************************************************************)
(* Specifications, one per component.                                      *)
(***************************************************************************)
InitFF == FFInit /\ AskIdle /\ UpIdle /\ FltIdle /\ LegIdle /\ MainIdle /\ ConfIdle
NextFF == FilterForwards \/ FilterAgain \/ ForwardList \/ ForwardInstall
SpecFF == InitFF /\ [][NextFF]_vars

InitAsk == AskInit /\ FFIdle /\ UpIdle /\ FltIdle /\ LegIdle /\ MainIdle /\ ConfIdle
SpecAsk == InitAsk /\ [][AskNext]_vars

InitConf ==
    ConfInit /\ FFIdle /\ AskIdle /\ UpIdle /\ FltIdle /\ LegIdle /\ MainIdle
SpecConf == InitConf /\ [][ConfNext]_vars

InitUp == UpInit /\ FFIdle /\ AskIdle /\ FltIdle /\ LegIdle /\ MainIdle /\ ConfIdle
SpecUp == InitUp /\ [][UpNext]_vars

InitFlt == FltInit /\ FFIdle /\ AskIdle /\ UpIdle /\ LegIdle /\ MainIdle /\ ConfIdle
SpecFlt == InitFlt /\ [][FltNext]_vars

InitLeg == LegInit /\ FFIdle /\ AskIdle /\ UpIdle /\ FltIdle /\ MainIdle /\ ConfIdle
SpecLeg == InitLeg /\ [][LegNext]_vars

SpecMain == MainInit /\ [][MainNext]_vars

====
